---- MODULE Spec2Model ----
(***************************************************************************)
(* Model of the capture and muxing core of mux-sweeper (muxsw): the Media  *)
(* Foundation muxer (encoder.c), the capture orchestrator (engine.c), the  *)
(* audio sources' silence generators (system.c, microphone.c) and the      *)
(* signal / watchdog bridge (signals.c).                                   *)
(*                                                                         *)
(* The muxer's module-level statics, the encoder context, the OS objects   *)
(* it drives and a log of what was stamped on each stream are the fields   *)
(* of one record, enc; every muxer function is an operator from records to *)
(* records, so that the orchestrator's loop can chain several calls inside *)
(* one iteration.                                                          *)
(*                                                                         *)
(* eng is the engine (capture_engine_t), the locals of engine_start and    *)
(* the position of the thread inside engine_start; src holds the capture   *)
(* sources' contexts and the silence generators' statics; now is           *)
(* GetTickCount; proc is the process around the engine: the window of      *)
(* gui.c or main.c with the threads of signals.c.                          *)
(***************************************************************************)
EXTENDS Integers, Sequences, FiniteSets, TLC

VARIABLES enc, eng, src, now, proc

vars == <<enc, eng, src, now, proc>>

\* ------------------------------------------------------------------------
\* Bounds of the model
\* ------------------------------------------------------------------------

\* encoder_add_* calls in the muxer specification
MaxSubmits == 3

\* encoder_init_* calls (sessions) in the muxer specification
MaxOpens == 2

\* ------------------------------------------------------------------------
\* Program constants
\* ------------------------------------------------------------------------

\* 100-ns ticks per second: the 10000000LL of every timestamp expression
TicksPerSecond == 10000000

\* the sample rate hard-coded in the audio output type of encoder_init and in
\* the timestamp expressions of every encoder_add_*audio_frame
HardCodedRate == 44100

\* (DWORD)-1, the "no audio stream" mark of encoder_init (0xFFFFFFFF, written
\* here as the signed value)
InvalidStreamIndex == -1

\* initial value of the static g_video_fps
DefaultVideoFps == 30

\* ------------------------------------------------------------------------
\* Inputs
\* ------------------------------------------------------------------------

\* target frame rates handed to encoder_init* (params->fps, 1..120)
FpsSet == {7, 30}

\* mix-format sample rates of the audio endpoints (0: no audio parameters)
RateSet == {44100, 48000}

\* frames per audio buffer handed to encoder_add_*audio_frame
NumFramesSet == {480}

\* the elapsed_ms argument of encoder_add_*
ElapsedSet == {0, 5000}

\* geometry reported by screen_init (a small desktop: the rows of a frame are
\* enumerated)
ScreenSizes == {<<4, 3>>}

\* how a call into Media Foundation ends inside encoder_add_*:
\*   fail_create  MFCreateSample .. AddBuffer fails (before the stamp)
\*   fail_write   the sample is stamped and IMFSinkWriter_WriteSample fails
\*   ok           the sample is stamped and written
AddOutcomes == {"ok", "fail_create", "fail_write"}

\* how encoder_init* ends: MFStartup fails, a call after the sink writer
\* exists fails (goto cleanup), or success
InitOutcomes == {"ok", "fail_startup", "fail_late"}

\* IMFSinkWriter_Finalize: S_OK, the tolerated 0xC00D4A44, any other failure
FinalizeOutcomes == {"ok", "empty_media", "fatal"}

Kinds == {"video", "audio", "system", "mic"}

\* ------------------------------------------------------------------------
\* 64-bit tick arithmetic
\* ------------------------------------------------------------------------

RECURSIVE Gcd(_, _)
Gcd(a, b) == IF b = 0 THEN a ELSE Gcd(b, a % b)

\* floor(n * 10000000 / rate), the LONGLONG expression of the source.  The
\* product does not fit the checker's 32-bit integers, so the quotient is
\* taken on the reduced fraction T/R = (q*R' + r)/R':
\*   floor(n*T/R) = n*q + floor(n*r / R')
TicksOf(n, rate) ==
    LET g  == Gcd(TicksPerSecond, rate)
        tt == TicksPerSecond \div g
        rr == rate \div g
    IN  n * (tt \div rr) + ((n * (tt % rr)) \div rr)

\* ------------------------------------------------------------------------
\* The muxer: statics of encoder.c, encoder_context_t, OS objects, log
\* ------------------------------------------------------------------------

NoStamp == [n |-> 0, t |-> -1, d |-> -1, pt |-> -1, pos |-> 0, nf |-> 0]

EncoderStatics == [
    g_sink_writer               |-> FALSE,
    g_video_stream_index        |-> 0,
    g_audio_stream_index        |-> 0,
    g_system_audio_stream_index |-> 0,
    g_mic_audio_stream_index    |-> 0,
    g_dual_track_mode           |-> FALSE,
    g_video_frame_count         |-> 0,
    g_audio_sample_count        |-> 0,
    g_system_audio_sample_count |-> 0,
    g_mic_audio_sample_count    |-> 0,
    g_video_width               |-> 0,
    g_video_height              |-> 0,
    g_video_fps                 |-> DefaultVideoFps,
    g_audio_sample_rate         |-> HardCodedRate,
    g_recording_start_time      |-> 0,
    g_last_video_timestamp      |-> 0 ]

\* the fields of EncoderStatics that encoder_cleanup and the orchestrator's
\* contract speak of (everything but g_audio_sample_rate)
ResetFields == DOMAIN EncoderStatics \ {"g_audio_sample_rate"}

EncoderContext == [ is_recording |-> FALSE, dual_track_mode |-> FALSE,
                    input_sample_rate |-> 0 ]

\* OS side: Media Foundation's startup count, live sink writers, the sample
\* rate declared on each audio stream's output type (0: none), the frame rate
\* declared on the video stream's output type (0: none), how many times
\* the current writer was finalized, and what its last
\* IMFSinkWriter_Finalize returned ("none": it was never called)
OsState == [ mf_refs |-> 0, writers |-> 0,
             out_rate |-> [k \in Kinds |-> 0],
             out_fps |-> 0,
             finalize_calls |-> 0,
             finalize_result |-> "none" ]

\* log: per stream, the samples stamped (n: how many, t/d: time and duration
\* of the last one, pt: time of the one before, pos: the stream counter when
\* the last one was stamped, nf: its frame count),
\* how many WriteSample calls succeeded, the end-of-stream ticks sent, and
\* whether the process trapped inside the muxer (fault)
EncInit == [ g      |-> EncoderStatics,
             ctx    |-> EncoderContext,
             os     |-> OsState,
             stamp  |-> [k \in Kinds |-> NoStamp],
             written|-> [k \in Kinds |-> 0],
             tick   |-> [k \in Kinds |-> -1],
             ret    |-> 0,
             fault  |-> "none",
             opens  |-> 0,
             calls  |-> 0 ]

Stamped(e, k, time, dur, pos, nf) ==
    [e EXCEPT !.stamp[k] = [n |-> @.n + 1, t |-> time, d |-> dur, pt |-> @.t,
                            pos |-> pos, nf |-> nf]]

\* a fresh log for a newly created sink writer
NewSession(e) ==
    [e EXCEPT !.stamp = [k \in Kinds |-> NoStamp],
              !.written = [k \in Kinds |-> 0],
              !.tick = [k \in Kinds |-> -1],
              !.os.out_rate = [k \in Kinds |-> 0],
              !.os.out_fps = 0,
              !.os.finalize_calls = 0,
              !.os.finalize_result = "none"]

\* ---- encoder_init: video + zero or one combined audio track -------------
encoder_init(e, size, fps, sample_rate, outcome) ==
    LET include_audio == sample_rate > 0
        c0 == [is_recording |-> FALSE, dual_track_mode |-> FALSE,
               input_sample_rate |-> sample_rate]
    IN
    IF outcome = "fail_startup"
    THEN [e EXCEPT !.ctx = c0, !.ret = -1]
    ELSE IF outcome = "fail_late"
    THEN \* MFStartup, sink writer created over the old handle, then a
         \* failure: goto cleanup releases the new writer and shuts down
         [e EXCEPT !.ctx = c0, !.ret = -1,
                   !.g.g_sink_writer = FALSE,
                   !.g.g_video_stream_index = 0,
                   !.g.g_audio_stream_index =
                       IF include_audio THEN 1 ELSE InvalidStreamIndex]
    ELSE LET s == NewSession(e)
         IN [s EXCEPT !.ctx = [c0 EXCEPT !.is_recording = TRUE],
                      !.ret = 0,
                      !.os.mf_refs = @ + 1,
                      !.os.writers = @ + 1,
                      !.os.out_fps = fps,
                      !.os.out_rate["audio"] =
                          IF include_audio THEN HardCodedRate ELSE 0,
                      !.g.g_sink_writer = TRUE,
                      !.g.g_video_stream_index = 0,
                      !.g.g_audio_stream_index =
                          IF include_audio THEN 1 ELSE InvalidStreamIndex,
                      !.g.g_video_width = size[1],
                      !.g.g_video_height = size[2],
                      !.g.g_video_fps = fps,
                      !.g.g_audio_sample_rate = sample_rate,
                      !.g.g_video_frame_count = 0,
                      !.g.g_audio_sample_count = 0]

\* ---- encoder_init_dual_track: video + system track + microphone track ---
encoder_init_dual_track(e, size, fps, sample_rate, outcome) ==
    LET include_audio == sample_rate > 0
        c0 == [is_recording |-> FALSE, dual_track_mode |-> TRUE,
               input_sample_rate |-> sample_rate]
        \* assigned before MFStartup, whatever follows
        e0 == [e EXCEPT !.ctx = c0,
                        !.g.g_dual_track_mode = TRUE,
                        !.g.g_video_frame_count = 0,
                        !.g.g_system_audio_sample_count = 0,
                        !.g.g_mic_audio_sample_count = 0,
                        !.g.g_video_width = size[1],
                        !.g.g_video_height = size[2],
                        !.g.g_video_fps = fps]
    IN
    IF outcome = "fail_startup"
    THEN [e0 EXCEPT !.ret = -1]
    ELSE IF outcome = "fail_late"
    THEN [e0 EXCEPT !.ret = -1,
                    !.g.g_sink_writer = FALSE,
                    !.g.g_video_stream_index = 0,
                    !.g.g_system_audio_stream_index =
                        IF include_audio THEN 1 ELSE @,
                    !.g.g_mic_audio_stream_index =
                        IF include_audio THEN 2 ELSE @]
    ELSE LET s == NewSession(e0)
         IN [s EXCEPT !.ctx.is_recording = TRUE,
                      !.ret = 0,
                      !.os.mf_refs = @ + 1,
                      !.os.writers = @ + 1,
                      !.os.out_fps = fps,
                      !.os.out_rate["system"] = sample_rate,
                      !.os.out_rate["mic"] = sample_rate,
                      !.g.g_sink_writer = TRUE,
                      !.g.g_video_stream_index = 0,
                      !.g.g_system_audio_stream_index =
                          IF include_audio THEN 1 ELSE @,
                      !.g.g_mic_audio_stream_index =
                          IF include_audio THEN 2 ELSE @,
                      !.g.g_audio_sample_rate = sample_rate]

\* ---- encoder_init_audio_only: one audio track, no video -----------------
encoder_init_audio_only(e, sample_rate, outcome) ==
    LET c0 == [is_recording |-> FALSE, dual_track_mode |-> FALSE,
               input_sample_rate |-> sample_rate]
        e0 == [e EXCEPT !.ctx = c0,
                        !.g.g_dual_track_mode = FALSE,
                        !.g.g_audio_sample_count = 0]
    IN
    IF outcome = "fail_startup"
    THEN [e0 EXCEPT !.ret = -1]
    ELSE IF outcome = "fail_late"
    THEN [e0 EXCEPT !.ret = -1,
                    !.g.g_sink_writer = FALSE,
                    !.g.g_audio_stream_index = 0]
    ELSE LET s == NewSession(e0)
         IN [s EXCEPT !.ctx.is_recording = TRUE,
                      !.ret = 0,
                      !.os.mf_refs = @ + 1,
                      !.os.writers = @ + 1,
                      !.os.out_rate["audio"] = sample_rate,
                      !.g.g_sink_writer = TRUE,
                      !.g.g_audio_stream_index = 0,
                      !.g.g_audio_sample_rate = sample_rate]

\* ---- encoder_init_audio_only_dual_track: two audio tracks, no video -----
encoder_init_audio_only_dual_track(e, sample_rate, outcome) ==
    LET c0 == [is_recording |-> FALSE, dual_track_mode |-> TRUE,
               input_sample_rate |-> sample_rate]
        e0 == [e EXCEPT !.ctx = c0,
                        !.g.g_dual_track_mode = TRUE,
                        !.g.g_system_audio_sample_count = 0,
                        !.g.g_mic_audio_sample_count = 0]
    IN
    IF outcome = "fail_startup"
    THEN [e0 EXCEPT !.ret = -1]
    ELSE IF outcome = "fail_late"
    THEN [e0 EXCEPT !.ret = -1,
                    !.g.g_sink_writer = FALSE,
                    !.g.g_system_audio_stream_index = 0,
                    !.g.g_mic_audio_stream_index = 1]
    ELSE LET s == NewSession(e0)
         IN [s EXCEPT !.ctx.is_recording = TRUE,
                      !.ret = 0,
                      !.os.mf_refs = @ + 1,
                      !.os.writers = @ + 1,
                      !.os.out_rate["system"] = sample_rate,
                      !.os.out_rate["mic"] = sample_rate,
                      !.g.g_sink_writer = TRUE,
                      !.g.g_system_audio_stream_index = 0,
                      !.g.g_mic_audio_stream_index = 1,
                      !.g.g_audio_sample_rate = sample_rate]

\* ---- encoder_add_video_frame --------------------------------------------
\* the guard of line 1691 (frame_data is never NULL when the caller has a
\* frame), the stamp of lines 1755-1766, WriteSample, then the counter
encoder_add_video_frame(e, elapsed_ms, outcome) ==
    IF ~e.ctx.is_recording \/ ~e.g.g_sink_writer
    THEN [e EXCEPT !.ret = -1]
    ELSE IF outcome = "fail_create"
    THEN [e EXCEPT !.ret = -1]
    ELSE LET timestamp == TicksOf(e.g.g_video_frame_count, e.g.g_video_fps)
             duration  == TicksPerSecond \div e.g.g_video_fps
             s == Stamped(e, "video", timestamp, duration,
                          e.g.g_video_frame_count, 1)
         IN IF outcome = "fail_write"
            THEN [s EXCEPT !.ret = -1]
            ELSE [s EXCEPT !.ret = 0,
                           !.written["video"] = @ + 1,
                           !.g.g_video_frame_count = @ + 1]

\* ---- encoder_add_audio_frame (combined track) ---------------------------
encoder_add_audio_frame(e, num_frames, elapsed_ms, outcome) ==
    IF ~e.ctx.is_recording \/ ~e.g.g_sink_writer
    THEN [e EXCEPT !.ret = -1]
    ELSE IF e.g.g_audio_stream_index = InvalidStreamIndex
    THEN [e EXCEPT !.ret = 0]
    ELSE IF outcome = "fail_create"
    THEN [e EXCEPT !.ret = -1]
    ELSE LET timestamp == TicksOf(e.g.g_audio_sample_count, HardCodedRate)
             duration  == TicksOf(num_frames, HardCodedRate)
             s == Stamped(e, "audio", timestamp, duration,
                          e.g.g_audio_sample_count, num_frames)
             a == [s EXCEPT !.g.g_audio_sample_count = @ + num_frames]
         IN IF outcome = "fail_write"
            THEN [a EXCEPT !.ret = -1]
            ELSE [a EXCEPT !.ret = 0, !.written["audio"] = @ + 1]

\* ---- encoder_add_system_audio_frame (dual-track) ------------------------
encoder_add_system_audio_frame(e, num_frames, elapsed_ms, outcome) ==
    IF ~e.ctx.is_recording \/ ~e.g.g_sink_writer \/ ~e.g.g_dual_track_mode
    THEN [e EXCEPT !.ret = -1]
    ELSE IF outcome = "fail_create"
    THEN [e EXCEPT !.ret = -1]
    ELSE LET timestamp == TicksOf(e.g.g_system_audio_sample_count, HardCodedRate)
             duration  == TicksOf(num_frames, HardCodedRate)
             s == Stamped(e, "system", timestamp, duration,
                          e.g.g_system_audio_sample_count, num_frames)
             a == [s EXCEPT !.g.g_system_audio_sample_count = @ + num_frames]
         IN IF outcome = "fail_write"
            THEN [a EXCEPT !.ret = -1]
            ELSE [a EXCEPT !.ret = 0, !.written["system"] = @ + 1]

\* ---- encoder_add_mic_audio_frame (dual-track) ---------------------------
encoder_add_mic_audio_frame(e, num_frames, elapsed_ms, outcome) ==
    IF ~e.ctx.is_recording \/ ~e.g.g_sink_writer \/ ~e.g.g_dual_track_mode
    THEN [e EXCEPT !.ret = -1]
    ELSE IF outcome = "fail_create"
    THEN [e EXCEPT !.ret = -1]
    ELSE LET timestamp == TicksOf(e.g.g_mic_audio_sample_count, HardCodedRate)
             duration  == TicksOf(num_frames, HardCodedRate)
             s == Stamped(e, "mic", timestamp, duration,
                          e.g.g_mic_audio_sample_count, num_frames)
             a == [s EXCEPT !.g.g_mic_audio_sample_count = @ + num_frames]
         IN IF outcome = "fail_write"
            THEN [a EXCEPT !.ret = -1]
            ELSE [a EXCEPT !.ret = 0, !.written["mic"] = @ + 1]

\* ---- encoder_finalize ---------------------------------------------------
\* end-of-stream ticks of lines 2138-2178, then IMFSinkWriter_Finalize
StreamTick(e, k, count) ==
    IF count = 0 \/ e.fault # "none" THEN e
    ELSE IF e.g.g_audio_sample_rate = 0
    THEN \* integer division by zero: on the x86 targets of the build the
         \* divide instruction raises the divide-error exception, which
         \* nothing handles: the process dies here
         [e EXCEPT !.fault = "div0"]
    ELSE [e EXCEPT !.tick[k] = TicksOf(count, e.g.g_audio_sample_rate)]

SendStreamTicks(e) ==
    LET total_audio_samples == e.g.g_audio_sample_count
                             + e.g.g_system_audio_sample_count
                             + e.g.g_mic_audio_sample_count
        v == IF e.g.g_video_frame_count > 0
             THEN [e EXCEPT !.tick["video"] = e.g.g_last_video_timestamp]
             ELSE e
    IN IF total_audio_samples = 0 THEN v
       ELSE IF e.g.g_dual_track_mode
       THEN StreamTick(StreamTick(v, "system", e.g.g_system_audio_sample_count),
                       "mic", e.g.g_mic_audio_sample_count)
       ELSE StreamTick(v, "audio", e.g.g_audio_sample_count)

encoder_finalize(e, outcome) ==
    IF ~e.g.g_sink_writer
    THEN [e EXCEPT !.ctx.is_recording = FALSE, !.ret = 0]
    ELSE LET k == SendStreamTicks(e)
             t == [k EXCEPT !.os.finalize_calls = @ + 1,
                            !.os.finalize_result = outcome]
         IN IF k.fault # "none" THEN k
            ELSE IF outcome = "empty_media" THEN [t EXCEPT !.ret = 0]
            ELSE IF outcome = "fatal" THEN [t EXCEPT !.ret = -1]
            ELSE [t EXCEPT !.ctx.is_recording = FALSE, !.ret = 0]

\* ---- encoder_cleanup ----------------------------------------------------
\* encoder_cleanup, were it to stop after releasing the sink writer and
\* clearing the context
encoder_cleanup_release_only(e) ==
    LET r == IF e.g.g_sink_writer
             THEN [e EXCEPT !.os.writers = @ - 1, !.os.mf_refs = @ - 1]
             ELSE e
    IN [r EXCEPT !.g.g_sink_writer = FALSE, !.ctx = EncoderContext]

\* encoder_cleanup, were MFShutdown called whether or not a sink writer is
\* held
encoder_cleanup_always_shutdown(e) ==
    LET r == IF e.g.g_sink_writer
             THEN [e EXCEPT !.os.writers = @ - 1]
             ELSE e
    IN [r EXCEPT !.os.mf_refs = @ - 1,
                 !.g = [f \in DOMAIN EncoderStatics |->
                           IF f \in ResetFields THEN EncoderStatics[f]
                           ELSE e.g[f]],
                 !.ctx = EncoderContext]

encoder_cleanup(e) ==
    LET r == IF e.g.g_sink_writer
             THEN [e EXCEPT !.os.writers = @ - 1, !.os.mf_refs = @ - 1]
             ELSE e
    IN [r EXCEPT !.g = [f \in DOMAIN EncoderStatics |->
                           IF f \in ResetFields THEN EncoderStatics[f]
                           ELSE e.g[f]],
                 !.ctx = EncoderContext]

\* ---- encoder_set_recording_start_time -----------------------------------
encoder_set_recording_start_time(e, start_time) ==
    [e EXCEPT !.g.g_recording_start_time = start_time]


\* ------------------------------------------------------------------------
\* Capture sources: screen.c, microphone.c, system.c
\* ------------------------------------------------------------------------

Min(a, b) == IF a <= b THEN a ELSE b

\* frames in a packet delivered by an audio endpoint
PacketFrames == 480

\* what IAudioCaptureClient_GetNextPacketSize reports: a packet, no packet
\* (the silence generator runs), or a failure
PacketKinds == {"data", "none", "error"}

\* screen_capture_t after memset; cached_frame holds, for each row of the
\* cached buffer, the row of the desktop texture it was copied from;
\* cached_alloc is the size in bytes of the block cached_frame points to
\* (0: cached_frame is NULL)
ScreenCtx == [ duplication |-> FALSE, is_capturing |-> FALSE,
               has_cached_frame |-> FALSE, cached_frame |-> <<>>,
               cached_frame_size |-> 0, cached_alloc |-> 0,
               width |-> 0, height |-> 0 ]

\* microphone_context_t / system_context_t after memset (rate: the mix
\* format's nSamplesPerSec, 0 while wave_format is NULL)
AudioCtx == [ audio_client |-> FALSE, is_capturing |-> FALSE, rate |-> 0,
              using_silent_buffer |-> FALSE ]

\* the function-level statics of *_get_buffer's silence generator
SilenceStatics == [ recording_start_time |-> 0, total_generated_samples |-> 0 ]

\* an endpoint's IAudioCaptureClient as its caller leaves it:
\*   outstanding   packets mapped by GetBuffer and not yet released
\*   stray         ReleaseBuffer calls made with no packet mapped
\*   released      a mapped packet has been released
CaptureClient == [ outstanding |-> 0, stray |-> 0, released |-> FALSE ]

AudioSources == {"mic", "system"}
Components == {"screen", "mic", "system", "encoder"}

\* cleaned: the components whose *_cleanup was called since engine_start was
\* entered
\* what a client polling one audio source has seen of it (the source
\* specification's ledger):
\*   source   the source polled ("none": not started)
\*   opened   tick count at which its capture was started
\*   at, kind tick count and kind ("idle": packet size zero) of the last call
\*   before   total_generated_samples when the last call was entered
\*   got      frames the last call returned
\*   first_idle, first_delivery   tick counts of the first idle call and of
\*            the first call that returned frames (0: none yet)
\*   real, delivered   frames of real packets returned, frames returned
PollLedger == [ source |-> "none", opened |-> 0, at |-> 0,
                kind |-> "none", before |-> 0, got |-> 0, first_idle |-> 0,
                first_delivery |-> 0, real |-> 0, delivered |-> 0 ]

SourcesInit == [ screen  |-> ScreenCtx,
                 audio   |-> [k \in AudioSources |-> AudioCtx],
                 silence |-> [k \in AudioSources |-> SilenceStatics],
                 capture |-> [k \in AudioSources |-> CaptureClient],
                 cleaned |-> {},
                 ledger  |-> PollLedger ]

screen_init(c, size, outcome) ==
    IF outcome = "ok"
    THEN [ctx |-> [ScreenCtx EXCEPT !.duplication = TRUE,
                                    !.width = size[1], !.height = size[2]],
          ret |-> 0]
    ELSE [ctx |-> ScreenCtx, ret |-> -1]

screen_start_capture(c) ==
    IF ~c.duplication THEN [ctx |-> c, ret |-> -1]
    ELSE [ctx |-> [c EXCEPT !.is_capturing = TRUE], ret |-> 0]

\* the row-by-row copy of the mapped texture, were it never flipped
CopyRowsTopDown(height, dual_track_mode) == [y \in 0..(height - 1) |-> y]

\* the row-by-row copy of the mapped texture into the frame buffer: row y of
\* the buffer is copied from the row of the texture given here
CopyRows(height, dual_track_mode) ==
    [y \in 0..(height - 1) |->
        IF dual_track_mode THEN y ELSE height - 1 - y]

\* MAX_CACHE_SIZE: 32 * 1024 * 1024
MaxCacheSize == 33554432

\* *frame_size of a BGRA texture tex = <<Width, Height>> (below 2^31 for
\* every texture used here)
FrameSize(tex) == tex[1] * tex[2] * 4

\* no frame returned (*frame_data is not assigned)
NoFrame == [size |-> 0, rows |-> <<>>]

\* screen_get_frame_dual_track, were the cache left as it is when a frame
\* is too large to be cached
screen_get_frame_keep_cache(c, tex, dual_track_mode, outcome) ==
    IF ~c.duplication \/ ~c.is_capturing
    THEN [ctx |-> c, ret |-> -1, frame |-> NoFrame]
    ELSE IF outcome = "timeout"
    THEN IF c.has_cached_frame /\ c.cached_alloc > 0
         THEN [ctx |-> c, ret |-> 0,
               frame |-> [size |-> c.cached_frame_size,
                          rows |-> c.cached_frame]]
         ELSE [ctx |-> c, ret |-> 1, frame |-> NoFrame]
    ELSE IF outcome = "error"
    THEN [ctx |-> c, ret |-> -1, frame |-> NoFrame]
    ELSE LET rows == CopyRows(tex[2], dual_track_mode)
         IN [ctx |-> IF FrameSize(tex) <= MaxCacheSize
                     THEN [c EXCEPT !.cached_frame = rows,
                                    !.cached_alloc = FrameSize(tex),
                                    !.cached_frame_size = FrameSize(tex),
                                    !.has_cached_frame = TRUE]
                     ELSE c,
             ret |-> 0,
             frame |-> [size |-> FrameSize(tex), rows |-> rows]]

\* screen_get_frame_dual_track.  tex: the size of the acquired desktop
\* texture; outcome: "new" (a frame was acquired), "timeout"
\* (DXGI_ERROR_WAIT_TIMEOUT: the cached frame is copied if there is one),
\* "error" (any other failure).  malloc is taken to succeed.
screen_get_frame_dual_track(c, tex, dual_track_mode, outcome) ==
    IF ~c.duplication \/ ~c.is_capturing
    THEN [ctx |-> c, ret |-> -1, frame |-> NoFrame]
    ELSE IF outcome = "timeout"
    THEN IF c.has_cached_frame /\ c.cached_alloc > 0
         THEN [ctx |-> c, ret |-> 0,
               frame |-> [size |-> c.cached_frame_size,
                          rows |-> c.cached_frame]]
         ELSE [ctx |-> c, ret |-> 1, frame |-> NoFrame]
    ELSE IF outcome = "error"
    THEN [ctx |-> c, ret |-> -1, frame |-> NoFrame]
    ELSE LET rows  == CopyRows(tex[2], dual_track_mode)
             freed == [c EXCEPT !.cached_frame = <<>>, !.cached_alloc = 0]
         IN [ctx |-> IF FrameSize(tex) <= MaxCacheSize
                     THEN [freed EXCEPT !.cached_frame = rows,
                                        !.cached_alloc = FrameSize(tex),
                                        !.cached_frame_size = FrameSize(tex),
                                        !.has_cached_frame = TRUE]
                     ELSE [freed EXCEPT !.has_cached_frame = FALSE],
             ret |-> 0,
             frame |-> [size |-> FrameSize(tex), rows |-> rows]]

screen_stop_capture(c) == [c EXCEPT !.is_capturing = FALSE]

screen_cleanup(c) == ScreenCtx

\* microphone_init / system_init
audio_init(c, rate, outcome) ==
    IF outcome = "ok"
    THEN [ctx |-> [AudioCtx EXCEPT !.audio_client = TRUE, !.rate = rate],
          ret |-> 0]
    ELSE [ctx |-> AudioCtx, ret |-> -1]

\* microphone_start_capture / system_start_capture
audio_start_capture(c, outcome) ==
    IF ~c.audio_client \/ outcome # "ok" THEN [ctx |-> c, ret |-> -1]
    ELSE [ctx |-> [c EXCEPT !.is_capturing = TRUE], ret |-> 0]

\* microphone_stop_capture / system_stop_capture
audio_stop_capture(c) ==
    IF ~c.audio_client THEN c ELSE [c EXCEPT !.is_capturing = FALSE]

\* microphone_cleanup / system_cleanup
audio_cleanup(c) == AudioCtx

\* *_get_buffer, were the silence of one call not limited to 50 ms worth
audio_get_buffer_uncapped(c, sil, t, pkt) ==
    IF ~c.audio_client \/ ~c.is_capturing \/ pkt = "error"
    THEN [ctx |-> c, sil |-> sil, ret |-> -1, frames |-> 0]
    ELSE IF pkt = "data"
    THEN [ctx |-> [c EXCEPT !.using_silent_buffer = FALSE], sil |-> sil,
          ret |-> 0, frames |-> PacketFrames]
    ELSE LET first    == sil.recording_start_time = 0
             start    == IF first THEN t ELSE sil.recording_start_time
             total    == IF first THEN 0 ELSE sil.total_generated_samples
             expected == ((c.rate \div 100) * (t - start)) \div 10
         IN IF total >= expected
            THEN [ctx |-> c,
                  sil |-> [recording_start_time |-> start,
                           total_generated_samples |-> total],
                  ret |-> 0, frames |-> 0]
            ELSE [ctx |-> [c EXCEPT !.using_silent_buffer = TRUE],
                  sil |-> [recording_start_time |-> start,
                           total_generated_samples |-> expected],
                  ret |-> 0, frames |-> expected - total]

\* *_get_buffer, were every silent buffer a full 50 ms worth whatever the
\* elapsed time calls for
audio_get_buffer_full_chunk(c, sil, t, pkt) ==
    IF ~c.audio_client \/ ~c.is_capturing \/ pkt = "error"
    THEN [ctx |-> c, sil |-> sil, ret |-> -1, frames |-> 0]
    ELSE IF pkt = "data"
    THEN [ctx |-> [c EXCEPT !.using_silent_buffer = FALSE], sil |-> sil,
          ret |-> 0, frames |-> PacketFrames]
    ELSE LET first    == sil.recording_start_time = 0
             start    == IF first THEN t ELSE sil.recording_start_time
             total    == IF first THEN 0 ELSE sil.total_generated_samples
             expected == ((c.rate \div 100) * (t - start)) \div 10
             chunk    == (c.rate * 50) \div 1000
         IN IF total >= expected
            THEN [ctx |-> c,
                  sil |-> [recording_start_time |-> start,
                           total_generated_samples |-> total],
                  ret |-> 0, frames |-> 0]
            ELSE [ctx |-> [c EXCEPT !.using_silent_buffer = TRUE],
                  sil |-> [recording_start_time |-> start,
                           total_generated_samples |-> total + chunk],
                  ret |-> 0, frames |-> chunk]

\* microphone_get_buffer / system_get_buffer at tick count t.  With no packet
\* pending the silence generator emits what the recording's elapsed time
\* calls for, at most 50 ms worth per call.
audio_get_buffer(c, sil, t, pkt) ==
    IF ~c.audio_client \/ ~c.is_capturing \/ pkt = "error"
    THEN [ctx |-> c, sil |-> sil, ret |-> -1, frames |-> 0]
    ELSE IF pkt = "data"
    THEN [ctx |-> [c EXCEPT !.using_silent_buffer = FALSE], sil |-> sil,
          ret |-> 0, frames |-> PacketFrames]
    ELSE LET first    == sil.recording_start_time = 0
             start    == IF first THEN t ELSE sil.recording_start_time
             total    == IF first THEN 0 ELSE sil.total_generated_samples
             elapsed  == t - start
             expected == ((c.rate \div 100) * elapsed) \div 10
             chunk    == (c.rate * 50) \div 1000
             s0       == [recording_start_time |-> start,
                          total_generated_samples |-> total]
         IN IF total >= expected
            THEN [ctx |-> c, sil |-> s0, ret |-> 0, frames |-> 0]
            ELSE LET n == Min(expected - total, chunk)
                 IN [ctx |-> [c EXCEPT !.using_silent_buffer = TRUE],
                     sil |-> [s0 EXCEPT !.total_generated_samples = total + n],
                     ret |-> 0, frames |-> n]

\* the capture client's side of *_get_buffer: a pending packet is mapped
\* by IAudioCaptureClient_GetBuffer
capture_get_buffer(cap, c, pkt) ==
    IF c.audio_client /\ c.is_capturing /\ pkt = "data"
    THEN [cap EXCEPT !.outstanding = @ + 1]
    ELSE cap

\* IAudioCaptureClient_ReleaseBuffer
ReleaseBuffer(cap) ==
    IF cap.outstanding > 0
    THEN [cap EXCEPT !.outstanding = @ - 1, !.released = TRUE]
    ELSE [cap EXCEPT !.stray = 1]

\* *_release_buffer, were the static silent buffer handed back to the
\* capture client like a mapped packet
audio_release_buffer_always(c, cap) ==
    IF ~c.audio_client THEN cap ELSE ReleaseBuffer(cap)

\* microphone_release_buffer / system_release_buffer
audio_release_buffer(c, cap) ==
    IF ~c.audio_client THEN cap
    ELSE IF ~c.using_silent_buffer THEN ReleaseBuffer(cap)
    ELSE cap

\* the test loop of engine_start: up to `left` rounds of Sleep(100) and
\* *_get_buffer, until one returns frames, which are released at once
RECURSIVE ProbeLoop(_, _, _, _, _, _)
ProbeLoop(c, sil, cap, t, left, pkt) ==
    IF left = 0
    THEN [ctx |-> c, sil |-> sil, cap |-> cap, t |-> t, ok |-> FALSE]
    ELSE LET r == audio_get_buffer(c, sil, t + 100, pkt)
             g == capture_get_buffer(cap, c, pkt)
         IN IF r.ret = 0 /\ r.frames > 0
            THEN [ctx |-> r.ctx, sil |-> r.sil,
                  cap |-> audio_release_buffer(r.ctx, g),
                  t |-> t + 100, ok |-> TRUE]
            ELSE ProbeLoop(r.ctx, r.sil, g, t + 100, left - 1, pkt)

\* ------------------------------------------------------------------------
\* Orchestrator and process (initial values)
\* ------------------------------------------------------------------------
\* capture_params_t as params_init_defaults leaves it
ParamsDefault == [ fps |-> 30, duration |-> 0, audio_sources |-> "none",
                   audio_only_mode |-> FALSE, force_stop |-> FALSE,
                   enable_video |-> FALSE, enable_system_audio |-> FALSE,
                   enable_microphone |-> FALSE ]

\* capture_stats_t after memset
StatsZero == [ total_frames |-> 0, failed_frames |-> 0,
               recording_duration_ms |-> 0, audio_enabled |-> FALSE,
               audio_sample_rate |-> 0 ]

\* params_validate_and_finalize: the recording mode of the three switches
\* (audio switches are forced off in a build without MUXSW_ENABLE_AUDIO)
params_validate_and_finalize(audio_build, enable_video, enable_system, enable_microphone, fps, duration) ==
    LET none == ~enable_video /\ ~enable_system /\ ~enable_microphone
        v    == IF none THEN TRUE ELSE enable_video
        sy   == audio_build /\ (IF none THEN TRUE ELSE enable_system)
        mi   == audio_build /\ (IF none THEN TRUE ELSE enable_microphone)
    IN [ fps      |-> IF fps <= 0 \/ fps > 120 THEN 30 ELSE fps,
         duration |-> duration,
         audio_sources |-> IF sy /\ mi THEN "both"
                           ELSE IF sy THEN "system"
                           ELSE IF mi THEN "mic" ELSE "none",
         audio_only_mode |-> ~v /\ (sy \/ mi),
         force_stop |-> FALSE,
         enable_video |-> v, enable_system_audio |-> sy,
         enable_microphone |-> mi ]

\* params_set_recording_mode on the structure p
params_set_recording_mode(audio_build, p, enable_video, enable_system, enable_mic) ==
    IF ~enable_video /\ ~enable_system /\ ~enable_mic
    THEN [params |-> p, ret |-> -1]
    ELSE [params |-> params_validate_and_finalize(audio_build, enable_video,
                         enable_system, enable_mic, p.fps, p.duration),
          ret |-> 0]

\* capture_engine_t after engine_init, the locals of engine_start, and the
\* thread's position:
\*   pc     where engine_start stands ("idle": not called; "returned")
\*   wake   tick count at which the thread's Sleep ends
\*   ret    engine_start's return value, once pc = "returned"
\*   path   how engine_start left: "early" (return before any goto),
\*          "cleanup" (the cleanup label), "teardown" (after the loop)
\*   iters  loop iterations started in this recording
\*   late_iters  iterations started while a cancellation flag was set
\*   finalize_ret  what encoder_finalize returned in the teardown
EngineInit == [
    pc |-> "idle", wake |-> 0, ret |-> 0, path |-> "none",
    params |-> ParamsDefault, stats |-> StatsZero,
    is_running |-> FALSE, force_stop |-> FALSE,
    use_microphone |-> FALSE, use_system |-> FALSE, use_dual_track |-> FALSE,
    microphone_result |-> -1, system_result |-> -1,
    audio_available |-> FALSE,
    start_time |-> 0, frame_interval |-> 0, next_frame_time |-> 0,
    frame_count |-> 0, failed_frame_attempts |-> 0,
    consecutive_audio_failures |-> 0,
    next_emergency_check |-> 0, loop_iterations |-> 0, current_time |-> 0,
    iters |-> 0, late_iters |-> 0, finalize_ret |-> 0 ]

\* the process around the engine:
\*   kind        "cli" (main.c) or "gui" (the window of gui.c)
\*   audio_build whether MUXSW_ENABLE_AUDIO is defined
\*   mix_rate    sample rate of the audio endpoints' mix format
\*   pkt         per audio endpoint, whether packets arrive during a recording
\*   recordings  record_start calls made; max_recordings bounds them
\*   fps_set, duration_set   the values the user may ask for
\*   faults, oversleeps, cap   what is left of the model's bounds
\*   record_ret, result_success   what record_start returned and reported
\*   exit_code   the process's exit code (-1 while it runs)
\*   stop        the thread inside engine_stop on behalf of the user
\*   watchdog    emergency_timeout_thread
ProcInit == [
    kind |-> "cli", audio_build |-> FALSE, mix_rate |-> 0,
    pkt |-> [k \in AudioSources |-> "none"],
    recordings |-> 0, max_recordings |-> 0,
    fps_set |-> {}, duration_set |-> {},
    faults |-> 0, oversleeps |-> 0, cap |-> 0,
    record_ret |-> 0, result_success |-> FALSE,
    exit_code |-> -1,
    shutdown_requested |-> FALSE,
    stop |-> [pc |-> "idle", deadline |-> 0, ret |-> 0],
    watchdog |-> [pc |-> "off", wake |-> 0, fired |-> FALSE] ]

\* the process has neither exited nor trapped
Alive == proc.exit_code = -1 /\ enc.fault = "none"

\* outcomes open to an OS call while `left` failures remain in the bound
Faulty(failures, left) == IF left > 0 THEN {"ok"} \cup failures ELSE {"ok"}

Cost(o) == IF o \in {"ok", "new"} THEN 0 ELSE 1

\* GetTickCount and DWORD arithmetic.  The counter of the program is 32 bits
\* wide; the model checker's integers end at 2^31 - 1, so the model's counter
\* wraps at TickModulus = 2^30, every sum and difference taken modulo it as
\* the program's are taken modulo 2^32.  t is the time since boot in ms.
TickModulus == 1073741824

GetTickCount(t) == t % TickModulus

DwordAdd(a, b) == (a + b) % TickModulus

DwordSub(a, b) == (a - b) % TickModulus

\* ------------------------------------------------------------------------
\* engine_start, part 1: parameters, screen_init, audio endpoints, the audio
\* test.  o holds the outcome of each OS call: screen, mic, system (the
\* *_init calls), mic_start, system_start, mic_get.
\* ------------------------------------------------------------------------

Returned(e, value, how) ==
    [e EXCEPT !.pc = "returned", !.ret = value, !.path = how,
              !.is_running = IF how = "early" THEN @ ELSE FALSE]

\* the microphone's test: start, up to 5 rounds of Sleep(100) and
\* microphone_get_buffer
TestMicrophone(s, t, pkt, o, mic_ok) ==
    LET mst == audio_start_capture(s.audio["mic"], o.mic_start)
    IN IF mic_ok /\ mst.ret = 0
       THEN ProbeLoop(mst.ctx, s.silence["mic"], s.capture["mic"], t, 5,
                      IF o.mic_get = "ok" THEN pkt["mic"] ELSE "error")
       ELSE [ctx |-> s.audio["mic"], sil |-> s.silence["mic"],
             cap |-> s.capture["mic"], t |-> t, ok |-> FALSE]

\* the system endpoint's test: up to 3 rounds unless the microphone's test
\* succeeded; a started endpoint passes even when it stays silent
TestSystem(s, t, pkt, o, sys_ok, mic_passed) ==
    LET yst == audio_start_capture(s.audio["system"], o.system_start)
    IN IF sys_ok /\ yst.ret = 0
       THEN [ProbeLoop(yst.ctx, s.silence["system"], s.capture["system"], t,
                       IF mic_passed THEN 0 ELSE 3, pkt["system"])
             EXCEPT !.ok = TRUE]
       ELSE [ctx |-> s.audio["system"], sil |-> s.silence["system"],
             cap |-> s.capture["system"], t |-> t, ok |-> FALSE]

\* the end of the test: both endpoints stopped, audio dropped if neither
\* passed
AudioTestDone(e, s, mpr, ypr) ==
    [eng |-> [e EXCEPT !.pc = "encoder", !.wake = ypr.t,
                       !.audio_available = mpr.ok \/ ypr.ok,
                       !.stats.audio_enabled = mpr.ok \/ ypr.ok],
     src |-> [s EXCEPT !.audio["mic"] = audio_stop_capture(mpr.ctx),
                       !.audio["system"] = audio_stop_capture(ypr.ctx),
                       !.silence["mic"] = mpr.sil,
                       !.silence["system"] = ypr.sil,
                       !.capture["mic"] = mpr.cap,
                       !.capture["system"] = ypr.cap]]

AudioTestSystem(e, s, pkt, o, sys_ok, mpr) ==
    AudioTestDone(e, s, mpr, TestSystem(s, mpr.t, pkt, o, sys_ok, mpr.ok))

\* the test of a video + audio recording
AudioTest(e, s, t, pkt, o, mic_ok, sys_ok) ==
    AudioTestSystem(e, s, pkt, o, sys_ok, TestMicrophone(s, t, pkt, o, mic_ok))

\* the direct start of an audio-only recording
DirectStart(e, s, o, mic_ok, sys_ok) ==
    LET mst == audio_start_capture(s.audio["mic"], o.mic_start)
        yst == audio_start_capture(s.audio["system"], o.system_start)
        direct == (~mic_ok \/ mst.ret = 0) /\ (~sys_ok \/ yst.ret = 0)
    IN [eng |-> [e EXCEPT !.pc = IF direct THEN "encoder" ELSE "cleanup",
                          !.audio_available = direct],
        src |-> [s EXCEPT !.audio["mic"] = IF mic_ok THEN mst.ctx ELSE @,
                          !.audio["system"] = IF sys_ok THEN yst.ctx ELSE @]]

\* engine_start once the endpoints are initialised, were the lack of every
\* requested audio source a warning in audio-only mode too
EndpointsDoneNeverFatal(e, s, t, pkt, o, mic_ok, sys_ok) ==
    IF e.audio_available /\ ~e.params.audio_only_mode
    THEN AudioTest(e, s, t, pkt, o, mic_ok, sys_ok)
    ELSE IF e.audio_available /\ e.params.audio_only_mode
    THEN DirectStart(e, s, o, mic_ok, sys_ok)
    ELSE [eng |-> [e EXCEPT !.pc = "encoder"], src |-> s]

\* engine_start once the endpoints are initialised
EndpointsDone(e, s, t, pkt, o, mic_ok, sys_ok) ==
    IF (e.use_microphone \/ e.use_system) /\ ~e.audio_available
       /\ e.params.audio_only_mode
    THEN [eng |-> [e EXCEPT !.pc = "cleanup"], src |-> s]
    ELSE IF e.audio_available /\ ~e.params.audio_only_mode
    THEN AudioTest(e, s, t, pkt, o, mic_ok, sys_ok)
    ELSE IF e.audio_available /\ e.params.audio_only_mode
    THEN DirectStart(e, s, o, mic_ok, sys_ok)
    ELSE [eng |-> [e EXCEPT !.pc = "encoder"], src |-> s]

\* the source selection and microphone_init / system_init
InitEndpoints(e, s, t, build, rate, pkt, o) ==
    LET p == e.params
        use_microphone == build /\ p.audio_sources \in {"mic", "both"}
        use_system     == build /\ p.audio_sources \in {"system", "both"}
        mic == IF use_microphone THEN audio_init(s.audio["mic"], rate, o.mic)
               ELSE [ctx |-> s.audio["mic"], ret |-> -1]
        sys == IF use_system THEN audio_init(s.audio["system"], rate, o.system)
               ELSE [ctx |-> s.audio["system"], ret |-> -1]
        mic_ok == use_microphone /\ mic.ret = 0
        sys_ok == use_system /\ sys.ret = 0
    IN EndpointsDone(
           [e EXCEPT !.use_microphone = use_microphone,
                     !.use_system = use_system,
                     !.use_dual_track = build /\ p.audio_sources = "both"
                                        /\ ~p.audio_only_mode,
                     !.microphone_result = mic.ret,
                     !.system_result = sys.ret,
                     !.audio_available = mic_ok \/ sys_ok,
                     !.stats.audio_sample_rate =
                         IF mic_ok \/ sys_ok THEN rate ELSE 0,
                     !.stats.audio_enabled = mic_ok \/ sys_ok],
           [s EXCEPT !.audio["mic"] = mic.ctx, !.audio["system"] = sys.ctx],
           t, pkt, o, mic_ok, sys_ok)

engine_start_init(e0, s0, t, build, rate, pkt, size, o) ==
    LET e1  == [e0 EXCEPT !.force_stop = FALSE, !.stats = StatsZero]
        scr == IF ~e0.params.audio_only_mode
               THEN screen_init(s0.screen, size, o.screen)
               ELSE [ctx |-> s0.screen, ret |-> 0]
    IN IF scr.ret # 0 \/ (~build /\ e0.params.audio_only_mode)
       THEN [eng |-> Returned(e1, -1, "early"),
             src |-> [s0 EXCEPT !.screen = scr.ctx]]
       ELSE InitEndpoints(e1, [s0 EXCEPT !.screen = scr.ctx], t, build, rate,
                          pkt, o)

\* ------------------------------------------------------------------------
\* engine_start, part 2: the muxer variant, start of the sources, the loop's
\* locals.  o: encoder, mic_start, system_start.
\* ------------------------------------------------------------------------

\* the muxer variant engine_start opens
OpenEncoder(e, s, m, o) ==
    LET sample_rate == IF e.stats.audio_enabled
                       THEN e.stats.audio_sample_rate ELSE 0
        size == <<s.screen.width, s.screen.height>>
        dual == e.use_dual_track /\ e.audio_available
    IN IF e.params.audio_only_mode
       THEN IF dual
            THEN encoder_init_audio_only_dual_track(m, sample_rate, o.encoder)
            ELSE encoder_init_audio_only(m, sample_rate, o.encoder)
       ELSE IF dual
            THEN encoder_init_dual_track(m, size, e.params.fps, sample_rate,
                                         o.encoder)
            ELSE encoder_init(m, size, e.params.fps, sample_rate, o.encoder)

\* the sources restarted for the recording, the start time, the loop's
\* locals
StartSources(e, s, m, t, o) ==
    LET restart == e.audio_available /\ ~e.params.audio_only_mode
        mst == IF restart /\ e.use_microphone /\ e.microphone_result = 0
               THEN audio_start_capture(s.audio["mic"], o.mic_start)
               ELSE [ctx |-> s.audio["mic"], ret |-> 0]
        yst == IF restart /\ e.use_system /\ e.system_result = 0
               THEN audio_start_capture(s.audio["system"], o.system_start)
               ELSE [ctx |-> s.audio["system"], ret |-> 0]
        use_microphone == e.use_microphone /\ mst.ret = 0
        use_system     == e.use_system /\ yst.ret = 0
        audio_available ==
            IF restart
            THEN (use_microphone /\ e.microphone_result = 0)
                 \/ (use_system /\ e.system_result = 0)
            ELSE e.audio_available
    IN [eng |-> [e EXCEPT
                   !.pc = "check",
                   !.use_microphone = use_microphone,
                   !.use_system = use_system,
                   !.audio_available = audio_available,
                   !.stats.audio_enabled =
                       IF restart THEN audio_available ELSE @,
                   !.start_time = GetTickCount(t),
                   !.is_running = TRUE,
                   !.frame_interval = 1000 \div e.params.fps,
                   !.next_frame_time = GetTickCount(t),
                   !.frame_count = 0,
                   !.failed_frame_attempts = 0,
                   !.consecutive_audio_failures = 0,
                   !.next_emergency_check = DwordAdd(GetTickCount(t), 1000),
                   !.loop_iterations = 0],
        src |-> [s EXCEPT !.audio["mic"] = mst.ctx,
                          !.audio["system"] = yst.ctx],
        enc |-> encoder_set_recording_start_time(m, GetTickCount(t))]

\* screen_start_capture and what follows it
StartScreen(e, s, m, t, o) ==
    LET scr == IF ~e.params.audio_only_mode THEN screen_start_capture(s.screen)
               ELSE [ctx |-> s.screen, ret |-> 0]
    IN IF scr.ret # 0
       THEN [eng |-> [e EXCEPT !.pc = "cleanup"],
             src |-> [s EXCEPT !.screen = scr.ctx], enc |-> m]
       ELSE StartSources(e, [s EXCEPT !.screen = scr.ctx], m, t, o)

EncoderOpened(e, s, m, t, o) ==
    IF m.ret # 0
    THEN [eng |-> [e EXCEPT !.pc = "cleanup"], src |-> s, enc |-> m]
    ELSE StartScreen(e, s, m, t, o)

engine_start_encoder(e0, s0, m0, t, o) ==
    EncoderOpened(e0, s0, OpenEncoder(e0, s0, m0, o), t, o)

\* ------------------------------------------------------------------------
\* engine_start, part 3: the head of one loop iteration, from the while
\* condition to the duration check
\* ------------------------------------------------------------------------

MaxLoopIterationsPerSecond == 2000
EmergencyCheckInterval == 1000
UnlimitedRunMs == 60000

LoopCondition(e) == e.is_running /\ ~e.force_stop /\ ~e.params.force_stop

engine_loop_check(e0, t) ==
    IF ~LoopCondition(e0) THEN [e0 EXCEPT !.pc = "teardown"]
    ELSE
    LET p  == e0.params
        e1 == [e0 EXCEPT !.current_time = GetTickCount(t),
                         !.loop_iterations = @ + 1,
                         !.iters = @ + 1,
                         !.late_iters =
                             IF e0.force_stop \/ e0.params.force_stop
                             THEN @ + 1 ELSE @]
        due == e1.current_time >= e1.next_emergency_check
        elapsed == DwordSub(e1.current_time, e0.start_time)
        e2 == IF due
              THEN [e1 EXCEPT !.loop_iterations = 0,
                              !.next_emergency_check =
                                  DwordAdd(e1.current_time,
                                           EmergencyCheckInterval)]
              ELSE e1
    IN IF due /\ e1.loop_iterations > MaxLoopIterationsPerSecond
       THEN [e1 EXCEPT !.pc = "teardown"]
       ELSE IF due /\ p.duration = 0 /\ elapsed > UnlimitedRunMs
       THEN [e2 EXCEPT !.pc = "teardown"]
       ELSE IF p.duration > 0 /\ elapsed >= p.duration * 1000
       THEN [e2 EXCEPT !.pc = "teardown"]
       ELSE [e2 EXCEPT !.pc = "body"]

\* ------------------------------------------------------------------------
\* engine_start, part 4: the body of one loop iteration (video, audio,
\* sleep).  t is the tick count the sources read; o: screen, video (the
\* muxer's video submission), mic_get, system_get, audio (the muxer's audio
\* submissions); extra: how long the Sleep overruns.
\* ------------------------------------------------------------------------

\* one audio source polled: the sources after the call and the frames to
\* submit (0: nothing to submit)
PollSource(s, k, t, pkt) ==
    LET r == audio_get_buffer(s.audio[k], s.silence[k], t, pkt)
    IN [src |-> [s EXCEPT !.audio[k] = r.ctx, !.silence[k] = r.sil,
                          !.capture[k] = capture_get_buffer(@, s.audio[k],
                                                            pkt)],
        frames |-> IF r.ret = 0 THEN r.frames ELSE 0]

\* the Sleep at the bottom of an iteration, were it 5 ms with audio and
\* min(5, max(1, next_frame_time - current_time)) without
SleepTimeClamped(e) ==
    LET d == e.next_frame_time - e.current_time
    IN IF e.audio_available THEN 5
       ELSE IF d > 5 THEN 5
       ELSE IF d > 1 THEN d
       ELSE 1

SleepTime(e) ==
    LET time_until_next_frame ==
            IF e.next_frame_time > e.current_time
            THEN e.next_frame_time - e.current_time ELSE 0
    IN IF e.audio_available THEN 5
       ELSE IF time_until_next_frame > 5 THEN 5
       ELSE IF time_until_next_frame > 1 THEN time_until_next_frame - 1
       ELSE 3

\* the video part of an iteration; x holds eng, src, enc
LoopVideo(e, s, m, o) ==
    LET fr  == screen_get_frame_dual_track(s.screen,
                                           <<s.screen.width, s.screen.height>>,
                                           m.ctx.dual_track_mode, o.screen)
        got == fr.ret = 0
    IN IF e.params.audio_only_mode \/ e.current_time < e.next_frame_time
       THEN [eng |-> e, src |-> s, enc |-> m]
       ELSE [eng |-> [e EXCEPT
                        !.frame_count = IF got THEN @ + 1 ELSE @,
                        !.failed_frame_attempts = IF got THEN @ ELSE @ + 1,
                        !.next_frame_time = DwordAdd(@, e.frame_interval)],
             src |-> [s EXCEPT !.screen = fr.ctx],
             enc |-> IF got
                     THEN encoder_add_video_frame(
                              m, DwordSub(e.current_time, e.start_time),
                              o.video)
                     ELSE m]

\* frames of one source handed to the muxer stream the mode selects, then
\* released
SubmitAudio(x, k, stream, r, elapsed, outcome) ==
    [eng |-> x.eng,
     src |-> IF r.frames = 0 THEN r.src
             ELSE [r.src EXCEPT
                     !.capture[k] = audio_release_buffer(r.src.audio[k], @)],
     enc |-> IF r.frames = 0 THEN x.enc
             ELSE IF stream = "system"
             THEN encoder_add_system_audio_frame(x.enc, r.frames, elapsed,
                                                 outcome)
             ELSE IF stream = "mic"
             THEN encoder_add_mic_audio_frame(x.enc, r.frames, elapsed,
                                              outcome)
             ELSE encoder_add_audio_frame(x.enc, r.frames, elapsed, outcome),
     ok  |-> x.ok \/ r.frames > 0]

PollAndSubmit(x, used, k, stream, t, pkt, elapsed, outcome) ==
    IF ~used THEN x
    ELSE SubmitAudio(x, k, stream, PollSource(x.src, k, t, pkt), elapsed,
                     outcome)

\* the end of an iteration: the failure count, the break of an audio-only
\* recording, Sleep
\* the end of an iteration, were the loop left when the muxer has just
\* refused a buffer
LoopSleepStopsOnRefusal(x, extra, t) ==
    LET e == x.eng
        failures == IF ~e.audio_available THEN e.consecutive_audio_failures
                    ELSE IF x.ok THEN 0
                    ELSE e.consecutive_audio_failures + 1
    IN IF x.enc.ret # 0
          \/ (e.audio_available /\ ~x.ok /\ e.params.audio_only_mode
               /\ failures > 1000)
       THEN [eng |-> [e EXCEPT !.consecutive_audio_failures = failures,
                               !.pc = "teardown"],
             src |-> x.src, enc |-> x.enc]
       ELSE [eng |-> [e EXCEPT !.consecutive_audio_failures = failures,
                               !.pc = "check",
                               !.wake = t + SleepTime(e) + extra],
             src |-> x.src, enc |-> x.enc]

LoopSleep(x, extra, t) ==
    LET e == x.eng
        failures == IF ~e.audio_available THEN e.consecutive_audio_failures
                    ELSE IF x.ok THEN 0
                    ELSE e.consecutive_audio_failures + 1
    IN IF e.audio_available /\ ~x.ok /\ e.params.audio_only_mode
          /\ failures > 1000
       THEN [eng |-> [e EXCEPT !.consecutive_audio_failures = failures,
                               !.pc = "teardown"],
             src |-> x.src, enc |-> x.enc]
       ELSE [eng |-> [e EXCEPT !.consecutive_audio_failures = failures,
                               !.pc = "check",
                               !.wake = t + SleepTime(e) + extra],
             src |-> x.src, enc |-> x.enc]

\* the second source of an iteration
LoopAudioSecond(x, dual, t, pkt, o) ==
    LET e == x.eng
        elapsed == DwordSub(e.current_time, e.start_time)
    IN IF dual
       THEN PollAndSubmit(x, e.microphone_result = 0, "mic", "mic", t,
                          IF o.mic_get = "ok" THEN pkt["mic"] ELSE "error",
                          elapsed, o.audio)
       ELSE PollAndSubmit(x, e.use_system /\ e.system_result = 0, "system",
                          "audio", t,
                          IF o.system_get = "ok" THEN pkt["system"]
                          ELSE "error",
                          elapsed, o.audio)

\* the first source of an iteration: system audio in dual-track mode, the
\* microphone otherwise
LoopAudioFirst(x, dual, t, pkt, o) ==
    LET e == x.eng
        elapsed == DwordSub(e.current_time, e.start_time)
    IN IF dual
       THEN PollAndSubmit(x, e.system_result = 0, "system", "system", t,
                          IF o.system_get = "ok" THEN pkt["system"]
                          ELSE "error",
                          elapsed, o.audio)
       ELSE PollAndSubmit(x, e.use_microphone /\ e.microphone_result = 0,
                          "mic", "audio", t,
                          IF o.mic_get = "ok" THEN pkt["mic"] ELSE "error",
                          elapsed, o.audio)

LoopAudio(x, dual, t, pkt, o) ==
    IF ~x.eng.audio_available THEN x
    ELSE LoopAudioSecond(LoopAudioFirst(x, dual, t, pkt, o), dual, t, pkt, o)

LoopVideoDone(v, t, pkt, o, extra) ==
    LoopSleep(LoopAudio([eng |-> v.eng, src |-> v.src, enc |-> v.enc,
                         ok |-> FALSE],
                        v.eng.use_dual_track /\ v.eng.use_microphone
                            /\ v.eng.use_system,
                        t, pkt, o),
              extra, t)

engine_loop_body(e0, s0, m0, t, pkt, o, extra) ==
    LoopVideoDone(LoopVideo(e0, s0, m0, o), t, pkt, o, extra)

\* ------------------------------------------------------------------------
\* engine_start, part 5: after the loop
\* ------------------------------------------------------------------------

engine_teardown(e0, s0, m0, t, outcome) ==
    LET p  == e0.params
        stop_audio(k, used, result) ==
            IF e0.audio_available /\ used /\ result = 0
            THEN audio_stop_capture(s0.audio[k]) ELSE s0.audio[k]
        s1 == [s0 EXCEPT
                 !.screen = IF ~p.audio_only_mode THEN screen_stop_capture(@)
                            ELSE @,
                 !.audio["mic"] = stop_audio("mic", e0.use_microphone,
                                             e0.microphone_result),
                 !.audio["system"] = stop_audio("system", e0.use_system,
                                                e0.system_result)]
        m1 == encoder_finalize(m0, outcome)
        e1 == [e0 EXCEPT !.stats.total_frames = e0.frame_count,
                         !.stats.failed_frames = e0.failed_frame_attempts,
                         !.stats.recording_duration_ms =
                             DwordSub(GetTickCount(t), e0.start_time),
                         !.finalize_ret = m1.ret]
    IN IF m1.fault # "none"
       THEN [eng |-> [e1 EXCEPT !.pc = "trapped"], src |-> s1, enc |-> m1]
       ELSE [eng |-> Returned(e1, 0, "teardown"), src |-> s1, enc |-> m1]

\* ------------------------------------------------------------------------
\* engine_start, part 6: the cleanup label
\* ------------------------------------------------------------------------

\* the cleanup label, were the system endpoint left out of it
engine_start_cleanup_without_system(e0, s0, m0, t) ==
    LET p == e0.params
        mic_used == e0.use_microphone /\ e0.microphone_result = 0
        s1 == [s0 EXCEPT
                 !.screen = IF ~p.audio_only_mode THEN screen_cleanup(@) ELSE @,
                 !.audio["mic"] = IF mic_used THEN audio_cleanup(@) ELSE @,
                 !.cleaned = @ \cup {"encoder"}
                               \cup (IF ~p.audio_only_mode THEN {"screen"} ELSE {})
                               \cup (IF mic_used THEN {"mic"} ELSE {})]
    IN [eng |-> [Returned(e0, -1, "cleanup") EXCEPT !.wake = t + 100],
        src |-> s1, enc |-> encoder_cleanup(m0)]

engine_start_cleanup(e0, s0, m0, t) ==
    LET p == e0.params
        mic_used == e0.use_microphone /\ e0.microphone_result = 0
        sys_used == e0.use_system /\ e0.system_result = 0
        s1 == [s0 EXCEPT
                 !.screen = IF ~p.audio_only_mode THEN screen_cleanup(@) ELSE @,
                 !.audio["mic"] = IF mic_used THEN audio_cleanup(@) ELSE @,
                 !.audio["system"] = IF sys_used THEN audio_cleanup(@) ELSE @,
                 !.cleaned = @ \cup {"encoder"}
                               \cup (IF ~p.audio_only_mode THEN {"screen"} ELSE {})
                               \cup (IF mic_used THEN {"mic"} ELSE {})
                               \cup (IF sys_used THEN {"system"} ELSE {})]
    IN [eng |-> [Returned(e0, -1, "cleanup") EXCEPT !.wake = t + 100],
        src |-> s1, enc |-> encoder_cleanup(m0)]

\* ------------------------------------------------------------------------
\* Threads of the process: actions
\* ------------------------------------------------------------------------

\* the thread that runs record_start: engine_init, then engine_start's
\* first statement
StartRecording(params, pkt) ==
    /\ eng' = [EngineInit EXCEPT !.pc = "init", !.wake = now,
                                 !.params = params]
    /\ proc' = [proc EXCEPT !.recordings = @ + 1, !.pkt = pkt]
    /\ src' = [src EXCEPT !.cleaned = {}]
    /\ UNCHANGED <<enc, now>>

UsesMic(p) == proc.audio_build /\ p.audio_sources \in {"mic", "both"}
UsesSystem(p) == proc.audio_build /\ p.audio_sources \in {"system", "both"}

InitFailures == {"fail"}
MuxInitFailures == {"fail_startup", "fail_late"}
MuxAddFailures == {"fail_create", "fail_write"}
FinalizeFailures == {"empty_media", "fatal"}
GetFailures == {"error"}
ScreenOutcomes(left) == IF left > 0 THEN {"new", "timeout", "error"} ELSE {"new"}
Oversleeps(left) == IF left > 0 THEN {0, 1000} ELSE {0}

EngineStartInit ==
    /\ Alive
    /\ eng.pc = "init"
    /\ now >= eng.wake
    /\ \E size \in ScreenSizes,
          so, mo, yo, ms, ys, mg \in Faulty(InitFailures, proc.faults) :
          LET p == eng.params
              o == [screen |-> so, mic |-> mo, system |-> yo,
                    mic_start |-> ms, system_start |-> ys, mic_get |-> mg]
              cost == Cost(so) + Cost(mo) + Cost(yo) + Cost(ms) + Cost(ys)
                      + Cost(mg)
              r == engine_start_init(eng, src, now, proc.audio_build,
                                     proc.mix_rate, proc.pkt, size, o)
          IN /\ cost <= proc.faults
             /\ p.audio_only_mode => so = "ok"
             /\ ~UsesMic(p) => (mo = "ok" /\ ms = "ok" /\ mg = "ok")
             /\ ~UsesSystem(p) => (yo = "ok" /\ ys = "ok")
             /\ p.audio_only_mode => mg = "ok"
             /\ eng' = r.eng
             /\ src' = r.src
             /\ proc' = [proc EXCEPT !.faults = @ - cost]
    /\ UNCHANGED <<enc, now>>

EngineStartEncoder ==
    /\ Alive
    /\ eng.pc = "encoder"
    /\ now >= eng.wake
    /\ \E eo \in Faulty(MuxInitFailures, proc.faults),
          ms, ys \in Faulty(InitFailures, proc.faults) :
          LET o == [encoder |-> eo, mic_start |-> ms, system_start |-> ys]
              cost == Cost(eo) + Cost(ms) + Cost(ys)
              restart == eng.audio_available /\ ~eng.params.audio_only_mode
              r == engine_start_encoder(eng, src, enc, now, o)
          IN /\ cost <= proc.faults
             /\ ~(restart /\ eng.use_microphone /\ eng.microphone_result = 0)
                    => ms = "ok"
             /\ ~(restart /\ eng.use_system /\ eng.system_result = 0)
                    => ys = "ok"
             /\ eng' = r.eng
             /\ src' = r.src
             /\ enc' = r.enc
             /\ proc' = [proc EXCEPT !.faults = @ - cost]
    /\ UNCHANGED now

EngineLoopCheck ==
    /\ Alive
    /\ eng.pc = "check"
    /\ now >= eng.wake
    /\ LoopCondition(eng) => eng.iters < proc.cap
    /\ eng' = engine_loop_check(eng, now)
    /\ UNCHANGED <<enc, src, now, proc>>

EngineLoopBody ==
    /\ Alive
    /\ eng.pc = "body"
    /\ \E so \in ScreenOutcomes(proc.faults),
          vo, ao \in Faulty(MuxAddFailures, proc.faults),
          mg, yg \in Faulty(GetFailures, proc.faults),
          extra \in Oversleeps(proc.oversleeps) :
          LET p == eng.params
              o == [screen |-> so, video |-> vo, mic_get |-> mg,
                    system_get |-> yg, audio |-> ao]
              cost == Cost(so) + Cost(vo) + Cost(mg) + Cost(yg) + Cost(ao)
              frame_due == ~p.audio_only_mode
                           /\ eng.current_time >= eng.next_frame_time
              r == engine_loop_body(eng, src, enc, now, proc.pkt, o, extra)
          IN /\ cost <= proc.faults
             /\ ~frame_due => (so = "new" /\ vo = "ok")
             /\ so # "new" => vo = "ok"
             /\ ~eng.audio_available => (mg = "ok" /\ yg = "ok" /\ ao = "ok")
             /\ ~(eng.use_microphone /\ eng.microphone_result = 0) => mg = "ok"
             /\ ~(eng.use_system /\ eng.system_result = 0) => yg = "ok"
             /\ eng' = r.eng
             /\ src' = r.src
             /\ enc' = r.enc
             /\ proc' = [proc EXCEPT
                           !.faults = @ - cost,
                           !.oversleeps = IF extra > 0 THEN @ - 1 ELSE @]
    /\ UNCHANGED now

EngineTeardown ==
    /\ Alive
    /\ eng.pc = "teardown"
    /\ \E fo \in Faulty(FinalizeFailures, proc.faults) :
          LET r == engine_teardown(eng, src, enc, now, fo)
          IN /\ eng' = r.eng
             /\ src' = r.src
             /\ enc' = r.enc
             /\ proc' = [proc EXCEPT !.faults = @ - Cost(fo)]
    /\ UNCHANGED now

EngineCleanupLabel ==
    /\ Alive
    /\ eng.pc = "cleanup"
    /\ LET r == engine_start_cleanup(eng, src, enc, now)
       IN /\ eng' = r.eng
          /\ src' = r.src
          /\ enc' = r.enc
    /\ UNCHANGED <<now, proc>>

\* a call of the loop body (IDXGIOutputDuplication_AcquireNextFrame,
\* IMFSinkWriter_WriteSample, IAudioCaptureClient_GetBuffer) that does not
\* return: the thread stays inside the iteration
EngineBlocks ==
    /\ Alive
    /\ eng.pc = "body"
    /\ eng' = [eng EXCEPT !.pc = "wedged"]
    /\ UNCHANGED <<enc, src, now, proc>>

\* engine_stop up to its polling loop
engine_stop_request(e) ==
    IF ~e.is_running THEN [eng |-> e, ret |-> -1]
    ELSE [eng |-> [e EXCEPT !.force_stop = TRUE], ret |-> 0]

\* engine_stop from its polling loop on: 20 rounds of Sleep(50), then
\* is_running is cleared whatever the engine thread does
engine_stop_return(e) == [e EXCEPT !.is_running = FALSE]

StopPollMs == 20 * 50

\* ---- the window of gui.c ------------------------------------------------

PacketModes == {"data", "none"}

\* the window's thread handles one message at a time: it is not inside
\* OnStopRecording's engine_stop
OnStartRecording ==
    /\ Alive
    /\ proc.kind = "gui"
    /\ eng.pc = "idle"
    /\ proc.stop.pc = "idle"
    /\ proc.recordings < proc.max_recordings
    /\ \E video_enabled, system_enabled, mic_enabled \in BOOLEAN,
          fps \in proc.fps_set, duration \in proc.duration_set,
          pm, py \in PacketModes :
          LET p == params_validate_and_finalize(proc.audio_build,
                       video_enabled, system_enabled, mic_enabled,
                       fps, duration)
          IN /\ video_enabled \/ system_enabled \/ mic_enabled
             /\ ~UsesMic(p) => pm = "none"
             /\ ~UsesSystem(p) => py = "none"
             /\ StartRecording(p, [mic |-> pm, system |-> py])

\* RecordingThread from record_start's return to its own
RecordingThreadEnds ==
    /\ Alive
    /\ proc.kind = "gui"
    /\ eng.pc = "returned"
    /\ now >= eng.wake
    /\ eng' = [eng EXCEPT !.pc = "idle"]
    /\ proc' = [proc EXCEPT !.record_ret = eng.ret,
                            !.result_success = (eng.ret = 0)]
    /\ UNCHANGED <<enc, src, now>>

OnStopRecording ==
    /\ Alive
    /\ proc.kind = "gui"
    /\ eng.pc # "idle"
    /\ proc.stop.pc = "idle"
    /\ LET r == engine_stop_request(eng)
       IN /\ eng' = r.eng
          /\ proc' = [proc EXCEPT !.stop =
                        IF r.ret = 0
                        THEN [pc |-> "polling", deadline |-> now + StopPollMs,
                              ret |-> 0]
                        ELSE [pc |-> "idle", deadline |-> 0, ret |-> -1]]
    /\ UNCHANGED <<enc, src, now>>

EngineStopReturns ==
    /\ Alive
    /\ proc.stop.pc = "polling"
    /\ ~eng.is_running \/ now >= proc.stop.deadline
    /\ eng' = engine_stop_return(eng)
    /\ proc' = [proc EXCEPT !.stop = [pc |-> "idle", deadline |-> 0,
                                      ret |-> 0]]
    /\ UNCHANGED <<enc, src, now>>

\* ---- main.c and signals.c -----------------------------------------------

WatchdogSleepMs == 5 * 60 * 1000
WatchdogGraceMs == 2000
ExitEmergency == 2

\* main: signals_init, engine_init, record_start's call of engine_start
MainStart ==
    /\ Alive
    /\ proc.kind = "cli"
    /\ eng.pc = "idle"
    /\ proc.recordings < proc.max_recordings
    /\ \E video_enabled, system_enabled, mic_enabled \in BOOLEAN,
          fps \in proc.fps_set, duration \in proc.duration_set,
          pm, py \in PacketModes :
          LET p == params_validate_and_finalize(proc.audio_build,
                       video_enabled, system_enabled, mic_enabled,
                       fps, duration)
          IN /\ ~UsesMic(p) => pm = "none"
             /\ ~UsesSystem(p) => py = "none"
             /\ eng' = [EngineInit EXCEPT !.pc = "init", !.wake = now,
                                          !.params = p]
             /\ proc' = [proc EXCEPT
                           !.recordings = @ + 1,
                           !.pkt = [mic |-> pm, system |-> py],
                           !.shutdown_requested = FALSE,
                           !.watchdog = [pc |-> "sleeping",
                                         wake |-> now + WatchdogSleepMs,
                                         fired |-> FALSE]]
             /\ src' = [src EXCEPT !.cleaned = {}]
    /\ UNCHANGED <<enc, now>>

\* engine_cleanup with the engine not running
engine_cleanup(s, m) ==
    [src |-> [s EXCEPT !.screen = ScreenCtx,
                       !.audio = [k \in AudioSources |-> AudioCtx],
                       !.cleaned = Components],
     enc |-> encoder_cleanup(m)]

\* main from record_start's return to its own
MainExits ==
    /\ Alive
    /\ proc.kind = "cli"
    /\ eng.pc = "returned"
    /\ now >= eng.wake
    /\ LET c == engine_cleanup(src, enc)
       IN /\ src' = c.src
          /\ enc' = c.enc
    /\ eng' = [EngineInit EXCEPT !.pc = "exited"]
    /\ proc' = [proc EXCEPT !.record_ret = eng.ret,
                            !.result_success = (eng.ret = 0),
                            !.exit_code = IF eng.ret = 0 THEN 0 ELSE 1]
    /\ UNCHANGED now

console_ctrl_handler ==
    /\ Alive
    /\ proc.kind = "cli"
    /\ proc.watchdog.pc # "off"
    /\ proc.stop.pc = "idle"
    /\ ~proc.shutdown_requested
    /\ LET r == engine_stop_request(eng)
       IN /\ eng' = r.eng
          /\ proc' = [proc EXCEPT
                        !.shutdown_requested = TRUE,
                        !.stop =
                          IF r.ret = 0
                          THEN [pc |-> "polling",
                                deadline |-> now + StopPollMs, ret |-> 0]
                          ELSE [pc |-> "idle", deadline |-> 0, ret |-> -1]]
    /\ UNCHANGED <<enc, src, now>>

\* emergency_timeout_thread after Sleep(5 * 60 * 1000): the test, and
\* engine_stop up to its polling loop
WatchdogFires ==
    /\ Alive
    /\ proc.watchdog.pc = "sleeping"
    /\ now >= proc.watchdog.wake
    /\ LET go == ~proc.shutdown_requested /\ eng.is_running
       IN /\ eng' = IF go THEN engine_stop_request(eng).eng ELSE eng
          /\ proc' = [proc EXCEPT !.watchdog =
                        IF go
                        THEN [pc |-> "stopping", wake |-> now + StopPollMs,
                              fired |-> TRUE]
                        ELSE [pc |-> "returned", wake |-> 0, fired |-> FALSE]]
    /\ UNCHANGED <<enc, src, now>>

\* engine_stop returns to the watchdog, which begins Sleep(2000)
WatchdogStopReturns ==
    /\ Alive
    /\ proc.watchdog.pc = "stopping"
    /\ ~eng.is_running \/ now >= proc.watchdog.wake
    /\ eng' = engine_stop_return(eng)
    /\ proc' = [proc EXCEPT !.watchdog.pc = "grace",
                            !.watchdog.wake = now + WatchdogGraceMs]
    /\ UNCHANGED <<enc, src, now>>

\* the watchdog after Sleep(2000): exit(2) if the engine is still running
WatchdogGraceEnds ==
    /\ Alive
    /\ proc.watchdog.pc = "grace"
    /\ now >= proc.watchdog.wake
    /\ proc' = IF eng.is_running
               THEN [proc EXCEPT !.exit_code = ExitEmergency]
               ELSE [proc EXCEPT !.watchdog.pc = "returned",
                                 !.watchdog.wake = 0]
    /\ UNCHANGED <<enc, eng, src, now>>

\* ---- the tick count -----------------------------------------------------

\* a thread that can take a step at the present tick count
EngineRunnable ==
    \/ eng.pc \in {"body", "teardown", "cleanup"}
    \/ eng.pc \in {"init", "encoder", "check", "returned"} /\ now >= eng.wake
StopRunnable ==
    proc.stop.pc = "polling"
    /\ (~eng.is_running \/ now >= proc.stop.deadline)
WatchdogRunnable ==
    \/ proc.watchdog.pc \in {"sleeping", "grace"} /\ now >= proc.watchdog.wake
    \/ proc.watchdog.pc = "stopping"
       /\ (~eng.is_running \/ now >= proc.watchdog.wake)

\* the tick counts at which a sleeping thread wakes
Wakes ==
    (IF eng.pc \in {"init", "encoder", "check", "returned"}
     THEN {eng.wake} ELSE {})
    \cup (IF proc.stop.pc = "polling" THEN {proc.stop.deadline} ELSE {})
    \cup (IF proc.watchdog.pc \in {"sleeping", "stopping", "grace"}
          THEN {proc.watchdog.wake} ELSE {})

\* every thread sleeps: GetTickCount moves to the next wake-up
AdvanceTime ==
    /\ Alive
    /\ ~EngineRunnable /\ ~StopRunnable /\ ~WatchdogRunnable
    /\ Wakes # {}
    /\ now' = CHOOSE w \in Wakes : \A v \in Wakes : w <= v
    /\ UNCHANGED <<enc, eng, src, proc>>

\* ------------------------------------------------------------------------
\* Specifications of the process
\* ------------------------------------------------------------------------

\* GetTickCount when the program starts
BootTicks == {1000}

MaxRecordings == 2
MaxIterations == 2
MaxFaults == 1
MaxOversleeps == 1

EngineFpsSet == {30}
DurationSet == {0, 1}

\* the GUI process: up to MaxRecordings recordings, OS failures and
\* overrunning sleeps within the bounds
InitEngine ==
    /\ enc = EncInit
    /\ eng = EngineInit
    /\ src = SourcesInit
    /\ now \in BootTicks
    /\ \E build \in BOOLEAN, rate \in RateSet, n \in 1..MaxRecordings,
          f \in 0..MaxFaults, z \in 0..MaxOversleeps :
          /\ ~build => rate = 44100
          /\ n > 1 => (f = 0 /\ z = 0)
          /\ proc = [ProcInit EXCEPT !.kind = "gui", !.audio_build = build,
                                     !.mix_rate = rate, !.max_recordings = n,
                                     !.fps_set = EngineFpsSet,
                                     !.duration_set = DurationSet,
                                     !.faults = f, !.oversleeps = z,
                                     !.cap = IF n > 1 THEN 1
                                              ELSE MaxIterations]

NextEngine ==
    \/ OnStartRecording
    \/ EngineStartInit
    \/ EngineStartEncoder
    \/ EngineLoopCheck
    \/ EngineLoopBody
    \/ EngineTeardown
    \/ EngineCleanupLabel
    \/ RecordingThreadEnds
    \/ OnStopRecording
    \/ EngineStopReturns
    \/ AdvanceTime

SpecEngine == InitEngine /\ [][NextEngine]_vars

\* ------------------------------------------------------------------------
\* Session specification: the window's process from its first recording to
\* the end of WinMain
\* ------------------------------------------------------------------------

\* WM_CLOSE with no recording in progress, the end of the message loop and
\* the rest of WinMain: engine_cleanup, then the process exits with 0
WinMainExits ==
    /\ Alive
    /\ proc.kind = "gui"
    /\ eng.pc = "idle"
    /\ proc.stop.pc = "idle"
    /\ LET c == engine_cleanup(src, enc)
       IN /\ src' = c.src
          /\ enc' = c.enc
    /\ eng' = [EngineInit EXCEPT !.pc = "exited"]
    /\ proc' = [proc EXCEPT !.exit_code = 0]
    /\ UNCHANGED now

\* the recording thread is inside engine_start's capture loop or has yet to
\* return from its teardown (the stops, encoder_finalize)
ThreadInRecording == eng.pc \in {"check", "body", "wedged", "teardown"}

\* WM_CLOSE answered with yes while a recording is in progress, from the end
\* of OnStopRecording's engine_stop on: PostQuitMessage, the end of the
\* message loop and the rest of WinMain, whose engine_cleanup finds
\* is_running FALSE and releases everything.  A recording thread that is
\* still in engine_start then works on released objects: the process either
\* exits before the thread touches one or traps.
OnCloseWhileRecording ==
    /\ Alive
    /\ proc.kind = "gui"
    /\ proc.stop.pc = "polling"
    /\ ~eng.is_running \/ now >= proc.stop.deadline
    /\ \E outcome \in IF ThreadInRecording THEN {"exit", "trap"}
                       ELSE {"exit"} :
          LET c == engine_cleanup(src, enc)
          IN /\ src' = c.src
             /\ enc' = IF outcome = "trap"
                       THEN [c.enc EXCEPT !.fault = "released"]
                       ELSE c.enc
             /\ proc' = [proc EXCEPT
                           !.stop = [pc |-> "idle", deadline |-> 0,
                                     ret |-> 0],
                           !.exit_code = IF outcome = "trap" THEN @ ELSE 0]
    /\ eng' = [EngineInit EXCEPT !.pc = "exited"]
    /\ UNCHANGED now

NextSession ==
    \/ NextEngine
    \/ WinMainExits
    \/ OnCloseWhileRecording

SpecSession == InitEngine /\ [][NextSession]_vars

\* one video-only recording that nothing disturbs: no OS call fails, every
\* Sleep lasts exactly as long as asked, nobody asks for a stop
PaceFpsSet == {30, 112}
PaceDurationSet == {1, 9}
PaceIterations == 4000

InitPace ==
    /\ enc = EncInit
    /\ eng = EngineInit
    /\ src = SourcesInit
    /\ now \in BootTicks
    /\ proc = [ProcInit EXCEPT !.kind = "gui", !.max_recordings = 1,
                               !.fps_set = PaceFpsSet,
                               !.duration_set = PaceDurationSet,
                               !.cap = PaceIterations]

NextPace ==
    \/ OnStartRecording
    \/ EngineStartInit
    \/ EngineStartEncoder
    \/ EngineLoopCheck
    \/ EngineLoopBody
    \/ EngineTeardown
    \/ RecordingThreadEnds
    \/ AdvanceTime

SpecPace == InitPace /\ [][NextPace]_vars

\* one undisturbed video-only recording started WrapLead ms before the tick
\* counter wraps
WrapLeads == {40, 1002, 2000}
WrapIterations == 400

InitWrap ==
    /\ enc = EncInit
    /\ eng = EngineInit
    /\ src = SourcesInit
    /\ now \in {TickModulus - lead : lead \in WrapLeads}
    /\ proc = [ProcInit EXCEPT !.kind = "gui", !.max_recordings = 1,
                               !.fps_set = EngineFpsSet,
                               !.duration_set = DurationSet,
                               !.cap = WrapIterations]

SpecWrap == InitWrap /\ [][NextPace]_vars

\* recordings without a duration limit that nothing disturbs and nobody
\* stops, video-only or video with both (silent) audio endpoints, in a
\* process built with audio
UnlimitedIterations == 15000

InitUnlimited ==
    /\ enc = EncInit
    /\ eng = EngineInit
    /\ src = SourcesInit
    /\ now \in BootTicks
    /\ proc = [ProcInit EXCEPT !.kind = "gui", !.audio_build = TRUE,
                               !.mix_rate = 44100,
                               !.max_recordings = MaxRecordings,
                               !.fps_set = {30},
                               !.duration_set = {0},
                               !.cap = UnlimitedIterations]

\* OnStartRecording with the window's switches on video alone or on video,
\* system audio and microphone
UnlimitedStart ==
    /\ OnStartRecording
    /\ ~eng'.params.audio_only_mode
    /\ eng'.params.audio_sources \in {"none", "both"}
    /\ \A k \in AudioSources : proc'.pkt[k] = "none"

NextUnlimited ==
    \/ UnlimitedStart
    \/ EngineStartInit
    \/ EngineStartEncoder
    \/ EngineLoopCheck
    \/ EngineLoopBody
    \/ EngineTeardown
    \/ RecordingThreadEnds
    \/ AdvanceTime

SpecUnlimited == InitUnlimited /\ [][NextUnlimited]_vars

\* audio-only recordings that nobody stops, in a process built with audio:
\* each endpoint either stays silent or fails every
\* IAudioCaptureClient_GetNextPacketSize (its device is gone)
AudioOnlyIterations == 1100
AudioOnlyDurationSet == {0, 3}

InitAudioOnly ==
    /\ enc = EncInit
    /\ eng = EngineInit
    /\ src = SourcesInit
    /\ now \in BootTicks
    /\ proc = [ProcInit EXCEPT !.kind = "gui", !.audio_build = TRUE,
                               !.mix_rate = 44100,
                               !.max_recordings = 1,
                               !.fps_set = {30},
                               !.duration_set = AudioOnlyDurationSet,
                               !.cap = AudioOnlyIterations]

\* OnStartRecording with the window's video switch off
AudioOnlyStart ==
    /\ Alive
    /\ eng.pc = "idle"
    /\ proc.stop.pc = "idle"
    /\ proc.recordings < proc.max_recordings
    /\ \E system_enabled, mic_enabled \in BOOLEAN,
          fps \in proc.fps_set, duration \in proc.duration_set,
          pm, py \in {"none", "error"} :
          LET p == params_validate_and_finalize(proc.audio_build, FALSE,
                       system_enabled, mic_enabled, fps, duration)
          IN /\ system_enabled \/ mic_enabled
             /\ ~UsesMic(p) => pm = "none"
             /\ ~UsesSystem(p) => py = "none"
             /\ StartRecording(p, [mic |-> pm, system |-> py])

NextAudioOnly ==
    \/ AudioOnlyStart
    \/ EngineStartInit
    \/ EngineStartEncoder
    \/ EngineLoopCheck
    \/ EngineLoopBody
    \/ EngineTeardown
    \/ RecordingThreadEnds
    \/ AdvanceTime

SpecAudioOnly == InitAudioOnly /\ [][NextAudioOnly]_vars

\* the command-line program: one recording under the emergency watchdog,
\* console control events, and calls of the loop that may block
CliFpsSet == {30}
CliDurationSet == {0, 1}
CliIterations == 2

InitCli ==
    /\ enc = EncInit
    /\ eng = EngineInit
    /\ src = SourcesInit
    /\ now \in BootTicks
    /\ \E build \in BOOLEAN, f \in 0..MaxFaults :
          proc = [ProcInit EXCEPT !.kind = "cli", !.audio_build = build,
                                  !.mix_rate = 44100, !.max_recordings = 1,
                                  !.fps_set = CliFpsSet,
                                  !.duration_set = CliDurationSet,
                                  !.faults = f,
                                  !.cap = CliIterations]

NextCli ==
    \/ MainStart
    \/ EngineStartInit
    \/ EngineStartEncoder
    \/ EngineLoopCheck
    \/ EngineLoopBody
    \/ EngineBlocks
    \/ EngineTeardown
    \/ EngineCleanupLabel
    \/ MainExits
    \/ console_ctrl_handler
    \/ EngineStopReturns
    \/ WatchdogFires
    \/ WatchdogStopReturns
    \/ WatchdogGraceEnds
    \/ AdvanceTime

SpecCli == InitCli /\ [][NextCli]_vars

\* ------------------------------------------------------------------------
\* Audio source specification: one source (microphone.c or system.c) started
\* and polled by a client on any schedule, the endpoint delivering packets
\* or staying idle from one call to the next
\* ------------------------------------------------------------------------

\* how long after the start of capture the client keeps polling (ms)
MaxSourceMs == 110

\* time between two calls (ms): an iteration of the loop with its Sleep(5),
\* the audio test's Sleep(100)
PollGaps == {10, 100}

\* frames the endpoint has captured since the start of capture
Captured(c, l, t) == ((c.rate \div 100) * (t - l.opened)) \div 10

InitSource ==
    /\ enc = EncInit
    /\ eng = EngineInit
    /\ src = SourcesInit
    /\ now \in BootTicks
    /\ proc = ProcInit

\* *_init and *_start_capture
SourceStart ==
    /\ src.ledger.source = "none"
    /\ \E k \in AudioSources, rate \in RateSet :
          LET i == audio_init(src.audio[k], rate, "ok")
              c == audio_start_capture(i.ctx, "ok")
          IN src' = [src EXCEPT !.audio[k] = c.ctx,
                                !.ledger.source = k,
                                !.ledger.opened = now]
    /\ UNCHANGED <<enc, eng, now, proc>>

\* one round of the client: Sleep, then *_get_buffer; a packet is there only
\* if the endpoint has captured that many frames beyond those already
\* returned
SourcePoll ==
    /\ src.ledger.source # "none"
    /\ \E gap \in PollGaps, pkt \in PacketKinds :
          LET k == src.ledger.source
              l == src.ledger
              t == now + gap
              r == audio_get_buffer(src.audio[k], src.silence[k], t, pkt)
          IN /\ t <= l.opened + MaxSourceMs
             /\ pkt = "data" =>
                    l.real + PacketFrames <= Captured(src.audio[k], l, t)
             /\ now' = t
             /\ src' = [src EXCEPT
                          !.audio[k] = r.ctx,
                          !.silence[k] = r.sil,
                          !.ledger = [l EXCEPT
                              !.at = t,
                              !.kind = IF pkt = "none" THEN "idle" ELSE pkt,
                              !.before =
                                  IF src.silence[k].recording_start_time = 0
                                  THEN 0
                                  ELSE src.silence[k].total_generated_samples,
                              !.got = r.frames,
                              !.first_idle =
                                  IF pkt = "none" /\ @ = 0 THEN t ELSE @,
                              !.first_delivery =
                                  IF r.frames > 0 /\ @ = 0 THEN t ELSE @,
                              !.real =
                                  IF pkt = "data" THEN @ + r.frames ELSE @,
                              !.delivered = @ + r.frames]]
    /\ UNCHANGED <<enc, eng, proc>>

NextSource ==
    \/ SourceStart
    \/ SourcePoll

SpecSource == InitSource /\ [][NextSource]_vars

\* ------------------------------------------------------------------------
\* Muxer specification: the public functions of encoder.c called in any
\* order by a client, each Media Foundation call free to fail
\* ------------------------------------------------------------------------

InitMux ==
    /\ enc = EncInit
    /\ eng = EngineInit
    /\ src = SourcesInit
    /\ now = 0
    /\ proc = ProcInit

Opened(e) == [e EXCEPT !.opens = @ + 1]
Called(e) == [e EXCEPT !.calls = @ + 1]

MuxInit ==
    /\ enc.fault = "none"
    /\ enc.opens < MaxOpens
    /\ \E size \in ScreenSizes, fps \in FpsSet, rate \in RateSet \cup {0},
          o \in InitOutcomes :
          enc' = Opened(encoder_init(enc, size, fps, rate, o))
    /\ UNCHANGED <<eng, src, now, proc>>

MuxInitDualTrack ==
    /\ enc.fault = "none"
    /\ enc.opens < MaxOpens
    /\ \E size \in ScreenSizes, fps \in FpsSet, rate \in RateSet,
          o \in InitOutcomes :
          enc' = Opened(encoder_init_dual_track(enc, size, fps, rate, o))
    /\ UNCHANGED <<eng, src, now, proc>>

MuxInitAudioOnly ==
    /\ enc.fault = "none"
    /\ enc.opens < MaxOpens
    /\ \E rate \in RateSet, o \in InitOutcomes :
          enc' = Opened(encoder_init_audio_only(enc, rate, o))
    /\ UNCHANGED <<eng, src, now, proc>>

MuxInitAudioOnlyDualTrack ==
    /\ enc.fault = "none"
    /\ enc.opens < MaxOpens
    /\ \E rate \in RateSet, o \in InitOutcomes :
          enc' = Opened(encoder_init_audio_only_dual_track(enc, rate, o))
    /\ UNCHANGED <<eng, src, now, proc>>

MuxAddVideo ==
    /\ enc.fault = "none"
    /\ enc.calls < MaxSubmits
    /\ \E el \in ElapsedSet, o \in AddOutcomes :
          enc' = Called(encoder_add_video_frame(enc, el, o))
    /\ UNCHANGED <<eng, src, now, proc>>

MuxAddAudio ==
    /\ enc.fault = "none"
    /\ enc.calls < MaxSubmits
    /\ \E nf \in NumFramesSet, el \in ElapsedSet, o \in AddOutcomes :
          enc' = Called(encoder_add_audio_frame(enc, nf, el, o))
    /\ UNCHANGED <<eng, src, now, proc>>

MuxAddSystemAudio ==
    /\ enc.fault = "none"
    /\ enc.calls < MaxSubmits
    /\ \E nf \in NumFramesSet, el \in ElapsedSet, o \in AddOutcomes :
          enc' = Called(encoder_add_system_audio_frame(enc, nf, el, o))
    /\ UNCHANGED <<eng, src, now, proc>>

MuxAddMicAudio ==
    /\ enc.fault = "none"
    /\ enc.calls < MaxSubmits
    /\ \E nf \in NumFramesSet, el \in ElapsedSet, o \in AddOutcomes :
          enc' = Called(encoder_add_mic_audio_frame(enc, nf, el, o))
    /\ UNCHANGED <<eng, src, now, proc>>

MuxFinalize ==
    /\ enc.fault = "none"
    /\ enc.os.finalize_calls = 0
    /\ \E o \in FinalizeOutcomes : enc' = encoder_finalize(enc, o)
    /\ UNCHANGED <<eng, src, now, proc>>

MuxCleanup ==
    /\ enc.fault = "none"
    /\ enc.g.g_sink_writer
    /\ enc' = encoder_cleanup(enc)
    /\ UNCHANGED <<eng, src, now, proc>>

NextMux ==
    \/ MuxInit
    \/ MuxInitDualTrack
    \/ MuxInitAudioOnly
    \/ MuxInitAudioOnlyDualTrack
    \/ MuxAddVideo
    \/ MuxAddAudio
    \/ MuxAddSystemAudio
    \/ MuxAddMicAudio
    \/ MuxFinalize
    \/ MuxCleanup

SpecMux == InitMux /\ [][NextMux]_vars

\* ------------------------------------------------------------------------
\* Cleanup specification: a client drives the screen source, the two audio
\* sources, the muxer and the engine through their public functions in any
\* order and calls their cleanup functions, possibly twice in a row
\* ------------------------------------------------------------------------

\* public calls the client may make, a cleanup repeated at once not counted
MaxClientCalls == 4

CleanupComponents == Components \cup {"engine"}

\* the objects a cleanup function releases or frees, given the contexts it
\* finds: each release in the code is guarded by the pointer it releases
Releases(comp, s, m) ==
    LET screen == (IF s.screen.duplication
                   THEN {<<"screen", "duplication">>, <<"screen", "context">>,
                         <<"screen", "device">>}
                   ELSE {})
                  \cup (IF s.screen.has_cached_frame
                        THEN {<<"screen", "cached_frame">>} ELSE {})
        audio(k) == IF s.audio[k].audio_client
                    THEN {<<k, "capture_client">>, <<k, "audio_client">>,
                          <<k, "wave_format">>, <<k, "device">>,
                          <<k, "enumerator">>}
                    ELSE {}
        muxer == IF m.g.g_sink_writer
                 THEN {<<"encoder", "sink_writer">>,
                       <<"encoder", "media_foundation">>}
                 ELSE {}
    IN CASE comp = "screen" -> screen
         [] comp \in AudioSources -> audio(comp)
         [] comp = "encoder" -> muxer
         [] OTHER -> screen \cup audio("mic") \cup audio("system") \cup muxer

\* the contexts and the engine structure after comp's cleanup function
CleanupOf(comp, s, m, e) ==
    CASE comp = "screen" ->
            [src |-> [s EXCEPT !.screen = screen_cleanup(@)],
             enc |-> m, eng |-> e]
      [] comp \in AudioSources ->
            [src |-> [s EXCEPT !.audio[comp] = audio_cleanup(@)],
             enc |-> m, eng |-> e]
      [] comp = "encoder" ->
            [src |-> s, enc |-> encoder_cleanup(m), eng |-> e]
      [] OTHER ->
            LET c == engine_cleanup(s, m)
            IN [src |-> c.src, enc |-> c.enc, eng |-> EngineInit]

\* what the client remembers:
\*   left      public calls it may still make
\*   last      the component whose cleanup was the last call ("none": the
\*             last call was not a cleanup)
\*   times     how many times in a row that cleanup has now been called
\*   released  what the last cleanup call released
\*   released_first  what the first of these cleanup calls released
\*   first     the contexts and the engine as the first of these cleanup
\*             calls left them
ClientLedger == [ kind |-> "client", left |-> MaxClientCalls,
                  last |-> "none", times |-> 0, released |-> {},
                  released_first |-> {},
                  first |-> [src |-> SourcesInit, enc |-> EncInit,
                             eng |-> EngineInit] ]

InitCleanup ==
    /\ enc = EncInit
    /\ eng = EngineInit
    /\ src = SourcesInit
    /\ now = 0
    /\ proc = ClientLedger

\* the ledger after a call that is not a cleanup
ClientCalled == [ClientLedger EXCEPT !.left = proc.left - 1]

\* screen_init, screen_start_capture or screen_get_frame_dual_track
ClientScreen ==
    /\ proc.left > 0
    /\ \E r \in {screen_init(src.screen, size, o).ctx :
                     size \in ScreenSizes, o \in {"ok", "fail"}}
              \cup {screen_start_capture(src.screen).ctx}
              \cup {screen_get_frame_dual_track(
                        src.screen, <<src.screen.width, src.screen.height>>,
                        d, o).ctx :
                     d \in BOOLEAN, o \in {"new", "timeout"}} :
          src' = [src EXCEPT !.screen = r]
    /\ proc' = ClientCalled
    /\ UNCHANGED <<enc, eng, now>>

\* microphone_init / system_init or *_start_capture
ClientAudio ==
    /\ proc.left > 0
    /\ \E k \in AudioSources :
          \E r \in {audio_init(src.audio[k], rate, o).ctx :
                        rate \in RateSet, o \in {"ok", "fail"}}
                 \cup {audio_start_capture(src.audio[k], "ok").ctx} :
             src' = [src EXCEPT !.audio[k] = r]
    /\ proc' = ClientCalled
    /\ UNCHANGED <<enc, eng, now>>

\* one of the four encoder_init variants, at a frame rate other than the
\* initial value of g_video_fps
ClientMuxOpen ==
    /\ proc.left > 0
    /\ \E size \in ScreenSizes, fps \in FpsSet \ {DefaultVideoFps},
          rate \in RateSet, o \in InitOutcomes :
          enc' \in {encoder_init(enc, size, fps, rate, o),
                    encoder_init_dual_track(enc, size, fps, rate, o),
                    encoder_init_audio_only(enc, rate, o),
                    encoder_init_audio_only_dual_track(enc, rate, o)}
    /\ proc' = ClientCalled
    /\ UNCHANGED <<src, eng, now>>

\* one of the four encoder_add_* functions
ClientMuxWrite ==
    /\ proc.left > 0
    /\ \E nf \in NumFramesSet :
          enc' \in {encoder_add_video_frame(enc, 0, "ok"),
                    encoder_add_audio_frame(enc, nf, 0, "ok"),
                    encoder_add_system_audio_frame(enc, nf, 0, "ok"),
                    encoder_add_mic_audio_frame(enc, nf, 0, "ok")}
    /\ proc' = ClientCalled
    /\ UNCHANGED <<src, eng, now>>

\* the engine structure as a recording that was stopped leaves it
\* (engine_start's statistics and flags; is_running is FALSE again)
ClientEngine ==
    /\ proc.left > 0
    /\ \E frames \in {0, 1}, stop \in BOOLEAN :
          eng' = [EngineInit EXCEPT !.stats.total_frames = frames,
                                    !.stats.recording_duration_ms = 100,
                                    !.force_stop = stop]
    /\ proc' = ClientCalled
    /\ UNCHANGED <<enc, src, now>>

\* screen_cleanup, microphone_cleanup, system_cleanup, encoder_cleanup or
\* engine_cleanup; a third call in a row is not modelled.  The cleaned set
\* is engine_start's and only engine_cleanup touches it here
ClientCleanup ==
    \E comp \in CleanupComponents :
       LET again == proc.last = comp
           c == CleanupOf(comp, src, enc, eng)
           r == Releases(comp, src, enc)
       IN /\ IF again THEN proc.times < 2 ELSE proc.left > 0
          /\ proc' = [proc EXCEPT
                 !.left = IF again THEN @ ELSE @ - 1,
                 !.last = comp,
                 !.times = IF again THEN @ + 1 ELSE 1,
                 !.released = r,
                 !.released_first = IF again THEN @ ELSE r,
                 !.first = IF again THEN @ ELSE c]
          /\ src' = c.src
          /\ enc' = c.enc
          /\ eng' = c.eng
          /\ UNCHANGED now

NextCleanup ==
    \/ ClientScreen
    \/ ClientAudio
    \/ ClientMuxOpen
    \/ ClientMuxWrite
    \/ ClientEngine
    \/ ClientCleanup

SpecCleanup == InitCleanup /\ [][NextCleanup]_vars

\* ------------------------------------------------------------------------
\* Parameters specification: a client fills a capture_params_t and calls
\* params_set_recording_mode and params_validate_and_finalize on it, in
\* either build
\* ------------------------------------------------------------------------

\* the fps and duration a client may store before validating
ParamsFpsSet == {-5, 0, 7, 30, 120, 121}
ParamsDurationSet == {0, 5}

\* what the client remembers: the build, the last call made ("none", "set",
\* "validate"), its arguments (the three switches, for "set") and its return
\* value
ParamsLedger == [ kind |-> "params", audio_build |-> FALSE,
                  call |-> "none", asked |-> <<FALSE, FALSE, FALSE>>,
                  ret |-> 0 ]

\* params_init_defaults, then fps and duration as the user gave them
InitParams ==
    /\ enc = EncInit
    /\ src = SourcesInit
    /\ now = 0
    /\ \E build \in BOOLEAN, fps \in ParamsFpsSet,
          duration \in ParamsDurationSet :
          /\ eng = [EngineInit EXCEPT !.params.fps = fps,
                                      !.params.duration = duration]
          /\ proc = [ParamsLedger EXCEPT !.audio_build = build]

ParamsSetRecordingMode ==
    /\ \E v, sy, mi \in BOOLEAN :
          LET r == params_set_recording_mode(proc.audio_build, eng.params,
                                             v, sy, mi)
          IN /\ eng' = [eng EXCEPT !.params = r.params]
             /\ proc' = [proc EXCEPT !.call = "set", !.asked = <<v, sy, mi>>,
                                     !.ret = r.ret]
    /\ UNCHANGED <<enc, src, now>>

ParamsValidateAndFinalize ==
    /\ eng' = [eng EXCEPT !.params =
                  params_validate_and_finalize(proc.audio_build,
                      @.enable_video, @.enable_system_audio,
                      @.enable_microphone, @.fps, @.duration)]
    /\ proc' = [proc EXCEPT !.call = "validate", !.ret = 0]
    /\ UNCHANGED <<enc, src, now>>

NextParams ==
    \/ ParamsSetRecordingMode
    \/ ParamsValidateAndFinalize

SpecParams == InitParams /\ [][NextParams]_vars

\* ------------------------------------------------------------------------
\* The screen source under a client that opens it, asks for frames and
\* closes it
\* ------------------------------------------------------------------------

\* sizes of the acquired desktop texture: a small one, one of exactly
\* 32 MiB, UHD (below 32 MiB) and DCI 4K (above)
TextureSizes == {<<4, 3>>, <<4096, 2048>>, <<3840, 2160>>, <<4096, 2160>>}

\* calls of screen_get_frame_dual_track the client makes
MaxFrameCalls == 4

\* what the client has seen:
\*   left     calls of screen_get_frame_dual_track it may still make
\*   call     outcome of the compositor in the last call ("none": no call
\*            since the source was opened)
\*   ret      what the last call returned
\*   before   whether a frame was cached when the last call was entered
\*   got      the frame the last call returned
\*   real     the last frame acquired from the compositor since the source
\*            was opened
ScreenLedger == [ kind |-> "screen", left |-> MaxFrameCalls, call |-> "none",
                  ret |-> 0, before |-> FALSE, got |-> NoFrame,
                  real |-> NoFrame ]

InitScreen ==
    /\ enc = EncInit
    /\ eng = EngineInit
    /\ src = SourcesInit
    /\ now \in BootTicks
    /\ proc = ScreenLedger

\* screen_init and screen_start_capture
ScreenOpen ==
    /\ ~src.screen.duplication
    /\ \E size \in ScreenSizes :
          src' = [src EXCEPT
                    !.screen = screen_start_capture(
                                   screen_init(@, size, "ok").ctx).ctx]
    /\ proc' = [proc EXCEPT !.call = "none", !.ret = 0, !.before = FALSE,
                            !.got = NoFrame, !.real = NoFrame]
    /\ UNCHANGED <<enc, eng, now>>

ScreenGetFrame ==
    /\ src.screen.is_capturing
    /\ proc.left > 0
    /\ \E tex \in TextureSizes, d \in BOOLEAN,
          o \in {"new", "timeout", "error"} :
          LET r == screen_get_frame_dual_track(src.screen, tex, d, o)
          IN /\ src' = [src EXCEPT !.screen = r.ctx]
             /\ proc' = [proc EXCEPT
                           !.left = @ - 1,
                           !.call = o,
                           !.ret = r.ret,
                           !.before = src.screen.has_cached_frame
                                      /\ src.screen.cached_alloc > 0,
                           !.got = r.frame,
                           !.real = IF o = "new" THEN r.frame ELSE @]
    /\ UNCHANGED <<enc, eng, now>>

\* screen_stop_capture and screen_cleanup
ScreenClose ==
    /\ src.screen.duplication
    /\ src' = [src EXCEPT !.screen = screen_cleanup(screen_stop_capture(@))]
    /\ proc' = [proc EXCEPT !.call = "cleanup", !.ret = 0, !.before = FALSE,
                            !.got = NoFrame, !.real = NoFrame]
    /\ UNCHANGED <<enc, eng, now>>

NextScreen == ScreenOpen \/ ScreenGetFrame \/ ScreenClose

SpecScreen == InitScreen /\ [][NextScreen]_vars

\* ------------------------------------------------------------------------
\* Timeline specification: samples submitted to one open muxer in any order,
\* each Media Foundation call free to fail; the ledger keeps, per stream,
\* where the last written sample ends (wend, -1: none written) and how far
\* after the end of the written sample before it that sample starts (gap)
\* ------------------------------------------------------------------------

TimelineFpsSet == 1..120
TimelineFramesSet == {1, 480}
MaxSamples == 3

TimelineLedger == [ wend |-> [k \in Kinds |-> -1],
                    gap  |-> [k \in Kinds |-> 0],
                    left |-> MaxSamples ]

\* the ledger after a call on stream k took the muxer from e to r
Ledgered(l, e, r, k) ==
    IF r.written[k] = e.written[k]
    THEN [l EXCEPT !.left = @ - 1]
    ELSE [l EXCEPT !.left = @ - 1,
                   !.wend[k] = r.stamp[k].t + r.stamp[k].d,
                   !.gap[k] = IF l.wend[k] = -1 THEN 0
                              ELSE r.stamp[k].t - l.wend[k]]

\* a muxer just opened by encoder_init (video and one combined audio track)
\* or by encoder_init_dual_track
InitTimeline ==
    /\ \E fps \in TimelineFpsSet, size \in ScreenSizes, dual \in BOOLEAN :
          enc = IF dual
                THEN encoder_init_dual_track(EncInit, size, fps,
                                             HardCodedRate, "ok")
                ELSE encoder_init(EncInit, size, fps, HardCodedRate, "ok")
    /\ eng = EngineInit
    /\ src = SourcesInit
    /\ now = 0
    /\ proc = TimelineLedger

TimelineAddVideo ==
    /\ proc.left > 0
    /\ \E o \in AddOutcomes :
          LET r == encoder_add_video_frame(enc, 0, o)
          IN /\ enc' = r
             /\ proc' = Ledgered(proc, enc, r, "video")
    /\ UNCHANGED <<eng, src, now>>

TimelineAddAudio ==
    /\ proc.left > 0
    /\ \E k \in {"audio", "system", "mic"}, nf \in TimelineFramesSet,
          o \in AddOutcomes :
          LET r == CASE k = "audio" ->
                          encoder_add_audio_frame(enc, nf, 0, o)
                     [] k = "system" ->
                          encoder_add_system_audio_frame(enc, nf, 0, o)
                     [] k = "mic" ->
                          encoder_add_mic_audio_frame(enc, nf, 0, o)
          IN /\ r.stamp # enc.stamp
             /\ enc' = r
             /\ proc' = Ledgered(proc, enc, r, k)
    /\ UNCHANGED <<eng, src, now>>

NextTimeline ==
    \/ TimelineAddVideo
    \/ TimelineAddAudio

SpecTimeline == InitTimeline /\ [][NextTimeline]_vars


\* ------------------------------------------------------------------------
\* Sample clocks
\* ------------------------------------------------------------------------

AudioKinds == {"audio", "system", "mic"}

\* the stream counter each encoder_add_* reads for its timestamp
StreamCounter(e, k) ==
    CASE k = "video"  -> e.g.g_video_frame_count
      [] k = "audio"  -> e.g.g_audio_sample_count
      [] k = "system" -> e.g.g_system_audio_sample_count
      [] k = "mic"    -> e.g.g_mic_audio_sample_count

\* the timestamp the next sample submitted on stream k would be stamped with
SampleClock(e, k) ==
    IF k = "video" THEN TicksOf(e.g.g_video_frame_count, e.g.g_video_fps)
    ELSE TicksOf(StreamCounter(e, k), HardCodedRate)

\* ------------------------------------------------------------------------
\* Properties of the muxer
\* ------------------------------------------------------------------------

\* C1: in a muxer opened with frame rate F, the N-th video sample stamped by
\* encoder_add_video_frame carries time (N - 1) * 10000000 / F and duration
\* 10000000 / F, whatever elapsed_ms was passed.
C1_VideoTimestampFormula ==
    (enc.os.out_fps > 0 /\ enc.stamp["video"].n >= 1) =>
        /\ enc.stamp["video"].t =
               TicksOf(enc.stamp["video"].n - 1, enc.os.out_fps)
        /\ enc.stamp["video"].d = TicksPerSecond \div enc.os.out_fps

\* C2: on every stream, of two successive stamped submissions within one
\* recording the second carries a strictly greater timestamp than the first,
\* whatever the outcome of either submission.
C2_StrictlyMonotonicTimestamps ==
    \A k \in Kinds :
        enc.stamp[k].n >= 2 => enc.stamp[k].pt < enc.stamp[k].t

\* C3: on every audio track, sample time is samples_emitted * 10000000 / R and
\* duration is num_frames * 10000000 / R, R being the sample rate declared on
\* that track's output type.
C3_AudioStampsUseOutputRate ==
    \A k \in AudioKinds :
        (enc.stamp[k].n >= 1 /\ enc.os.out_rate[k] > 0) =>
            /\ enc.stamp[k].t = TicksOf(enc.stamp[k].pos, enc.os.out_rate[k])
            /\ enc.stamp[k].d = TicksOf(enc.stamp[k].nf, enc.os.out_rate[k])

\* C4: once encoder_finalize has run on a sink writer, every stream that
\* received a sample has an end-of-stream tick at the stream's final
\* sample-clock position, and no other stream has a tick.
C4_EndOfStreamTickAtFinalPosition ==
    (enc.g.g_sink_writer /\ enc.os.finalize_calls >= 1 /\ enc.fault = "none") =>
        \A k \in Kinds :
            /\ enc.written[k] >= 1 => enc.tick[k] = SampleClock(enc, k)
            /\ enc.stamp[k].n = 0 => enc.tick[k] = -1


\* ------------------------------------------------------------------------
\* The orchestrator's contract
\* ------------------------------------------------------------------------

\* engine_start has come back through the code after the loop
AfterTeardown == eng.pc = "returned" /\ eng.path = "teardown"

\* the recording thread is past record_start of a recording that reached
\* the code after the loop
Reported == proc.kind = "gui" /\ eng.pc = "idle" /\ eng.path = "teardown"

\* C5: when IMFSinkWriter_Finalize fails with a code other than the tolerated
\* empty-media code (encoder_finalize returns -1) engine_start and
\* record_start report failure; when it succeeds or fails with the tolerated
\* code they report success.
C5_FinalizeFailureIsReported ==
    /\ AfterTeardown => ((eng.ret = 0) <=> (eng.finalize_ret = 0))
    /\ Reported => ((proc.record_ret = 0 /\ proc.result_success)
                        <=> (eng.finalize_ret = 0))

\* the muxer's process-wide state reads as it does at program start
MuxerGlobalsInitial == \A f \in ResetFields : enc.g[f] = EncoderStatics[f]

\* C6: once engine_start has returned, by whichever path, every muxer global
\* reads its initial value and the cleanup of every component has been
\* called.
C6_NoLeakAfterRun ==
    eng.pc = "returned" => (MuxerGlobalsInitial /\ src.cleaned = Components)

\* the second recording of the process has opened its muxer and is about to
\* enter the loop
SecondRecordingOpened ==
    proc.recordings = 2 /\ eng.pc = "check" /\ eng.iters = 0

\* C7: a second recording in the same process starts from clean state: the
\* silence generators' timelines are unset when it is started, and once its
\* muxer is open every stream counter is zero and the muxer's dual-track flag
\* is that of the variant just opened.
C7_SecondRecordingStartsClean ==
    /\ (proc.recordings = 2 /\ eng.pc = "init")
           => \A k \in AudioSources : src.silence[k] = SilenceStatics
    /\ SecondRecordingOpened
           => /\ enc.g.g_video_frame_count = 0
              /\ enc.g.g_audio_sample_count = 0
              /\ enc.g.g_system_audio_sample_count = 0
              /\ enc.g.g_mic_audio_sample_count = 0
              /\ enc.g.g_dual_track_mode = enc.ctx.dual_track_mode

\* a cancellation flag is set
Cancelled == eng.force_stop \/ eng.params.force_stop

NoSourceCapturing ==
    /\ ~src.screen.is_capturing
    /\ \A k \in AudioSources : ~src.audio[k].is_capturing

\* C8: once a cancellation flag is set during the loop no further iteration
\* is started, and engine_start ends by returning 0 with every source
\* stopped, the muxer finalized exactly once and the statistics of the
\* frames counted so far.
C8_CancellationFinalizesAndSucceeds ==
    /\ eng.late_iters = 0
    /\ (Cancelled /\ eng.pc \in {"returned", "trapped"})
           => /\ eng.pc = "returned"
              /\ eng.ret = 0
              /\ NoSourceCapturing
              /\ enc.os.finalize_calls = 1
              /\ eng.stats.total_frames = eng.frame_count

\* the watchdog asked for a stop and its grace period is over
GraceOver ==
    proc.watchdog.fired
    /\ (proc.watchdog.pc = "returned" \/ proc.exit_code = ExitEmergency)

\* engine_start has been entered and has not returned
Unfinished == eng.pc \notin {"idle", "returned", "exited"}

\* C9: when the watchdog has requested a stop (the engine was running five
\* minutes after signals_init with no shutdown requested) and engine_start
\* has still not returned once the 2 s grace period is over, the process has
\* been terminated with exit code 2.
C9_WatchdogKillsUnfinishedEngine ==
    (GraceOver /\ Unfinished) => proc.exit_code = ExitEmergency

\* C10: a recording with frame rate F and duration D > 0 ends with
\* stats.total_frames <= F * D + F.
C10_FrameCountBound ==
    (AfterTeardown /\ eng.params.duration > 0)
        => eng.stats.total_frames
               <= eng.params.fps * eng.params.duration + eng.params.fps

\* C11: at the end of a video recording the length of the muxer's video
\* timeline (frames written times the per-frame duration 10000000 / F) and
\* the measured stats.recording_duration_ms differ by at most one video-frame
\* interval.
C11_DeclaredDurationMatchesMeasured ==
    (AfterTeardown /\ ~eng.params.audio_only_mode /\ enc.os.out_fps > 0) =>
        LET frame    == TicksPerSecond \div enc.os.out_fps
            timeline == enc.written["video"] * frame
            measured == eng.stats.recording_duration_ms * (TicksPerSecond \div 1000)
        IN /\ timeline - measured <= frame
           /\ measured - timeline <= frame

\* C12: when engine_start has opened the muxer, the variant opened is the
\* one its mode calls for: video without audio -> encoder_init with no audio
\* stream; video with one audio source -> encoder_init with one combined
\* track; video with both sources -> encoder_init_dual_track; audio-only
\* with one source -> encoder_init_audio_only; audio-only with both sources
\* -> encoder_init_audio_only_dual_track (two audio tracks).
C12_MuxerVariantFollowsMode ==
    (eng.pc = "check" /\ eng.iters = 0) =>
        LET video  == enc.os.out_fps > 0
            tracks == {k \in AudioKinds : enc.os.out_rate[k] > 0}
            both   == eng.params.audio_sources = "both"
            none   == eng.params.audio_sources = "none"
        IN IF eng.params.audio_only_mode
           THEN /\ ~video
                /\ tracks = IF both THEN {"system", "mic"} ELSE {"audio"}
           ELSE /\ video
                /\ none => tracks = {}
                /\ (eng.audio_available /\ ~both) => tracks = {"audio"}
                /\ (eng.audio_available /\ both) => tracks = {"system", "mic"}

\* C13: when audio was requested and none of the requested audio sources
\* initializes, an audio-only engine_start fails: it goes to its cleanup
\* label without opening a muxer and returns -1 with no sink writer left and
\* the cleanup run; any other recording proceeds video-only: the muxer it
\* opens has no audio stream and stats.audio_enabled is false.
C13_NoAudioSourceAvailable ==
    (/\ eng.params.audio_sources # "none"
     /\ eng.microphone_result # 0 /\ eng.system_result # 0
     /\ eng.pc \in {"encoder", "check", "body", "teardown", "cleanup",
                    "returned", "trapped"}) =>
        IF eng.params.audio_only_mode
        THEN /\ eng.pc \in {"cleanup", "returned"}
             /\ eng.pc = "returned" =>
                    /\ eng.ret = -1 /\ eng.path = "cleanup"
                    /\ ~enc.g.g_sink_writer /\ enc.os.writers = 0
                    /\ "encoder" \in src.cleaned
                    /\ \A k \in AudioSources : src.audio[k] = AudioCtx
        ELSE /\ ~eng.stats.audio_enabled /\ ~eng.audio_available
             /\ (eng.pc \in {"check", "body", "teardown"} \/ AfterTeardown) =>
                    /\ enc.os.out_fps > 0
                    /\ \A k \in AudioKinds : enc.os.out_rate[k] = 0

\* a recording that asked for audio, got no source, and ran to its end with
\* video frames
C13_Witness ==
    /\ AfterTeardown
    /\ eng.params.audio_sources # "none" /\ ~eng.params.audio_only_mode
    /\ eng.microphone_result # 0 /\ eng.system_result # 0
    /\ eng.stats.total_frames > 0 /\ ~eng.stats.audio_enabled

\* ------------------------------------------------------------------------
\* The audio sources' silence
\* ------------------------------------------------------------------------

\* C14 as stated: after every idle *_get_buffer call total_generated_samples
\* is within one sample of floor(sample_rate * elapsed_ms / 1000), elapsed_ms
\* being the time since the source's first idle call.
C14_SilenceEqualsElapsed ==
    src.ledger.kind = "idle" =>
        LET k        == src.ledger.source
            expected == ((src.audio[k].rate \div 100)
                            * (src.ledger.at - src.ledger.first_idle)) \div 10
            total    == src.silence[k].total_generated_samples
        IN total - expected <= 1 /\ expected - total <= 1

\* C14, amended: after every idle *_get_buffer call total_generated_samples
\* is at most floor(sample_rate * elapsed_ms / 1000); it equals that number
\* when the source was no more than 50 ms worth of samples behind it on
\* entry, and otherwise it has grown by exactly 50 ms worth of samples.
C14_SilenceFollowsElapsedInChunks ==
    src.ledger.kind = "idle" =>
        LET k        == src.ledger.source
            rate     == src.audio[k].rate
            expected == ((rate \div 100)
                            * (src.ledger.at - src.ledger.first_idle)) \div 10
            chunk    == (rate * 50) \div 1000
            total    == src.silence[k].total_generated_samples
        IN /\ total <= expected
           /\ expected - src.ledger.before <= chunk => total = expected
           /\ expected - src.ledger.before > chunk
                  => total = src.ledger.before + chunk

\* an idle call that found the source more than 50 ms behind
C14_Witness ==
    /\ src.ledger.kind = "idle"
    /\ src.silence[src.ledger.source].total_generated_samples
           = src.ledger.before
               + (src.audio[src.ledger.source].rate * 50) \div 1000
    /\ src.ledger.real > 0

\* C15: the frames a source has delivered (real packets and silence) never
\* exceed sample_rate * (time since its first delivery) by more than one
\* 50 ms chunk.
C15_DeliveredTracksWallTime ==
    src.ledger.first_delivery > 0 =>
        LET k    == src.ledger.source
            rate == src.audio[k].rate
        IN src.ledger.delivered
               <= ((rate \div 100)
                      * (src.ledger.at - src.ledger.first_delivery)) \div 10
                  + (rate * 50) \div 1000

\* ------------------------------------------------------------------------
\* The frame's row order
\* ------------------------------------------------------------------------

\* C16: the frame of height H that get_frame hands to a recording (and
\* caches) has its row y copied from row H-1-y of the desktop texture when the muxer of the
\* recording was opened with a single-track variant, and from row y when it
\* was opened with a dual-track variant, for every y in 0..H-1.
C16_RowOrderFollowsMuxerVariant ==
    (src.screen.has_cached_frame /\ eng.frame_count > 0) =>
        LET H    == src.screen.height
            dual == enc.os.out_rate["system"] > 0
        IN /\ DOMAIN src.screen.cached_frame = 0..(H - 1)
           /\ \A y \in 0..(H - 1) :
                  src.screen.cached_frame[y] = IF dual THEN y ELSE H - 1 - y

\* a frame captured in a single-track recording: flipped
C16_Witness ==
    /\ src.screen.has_cached_frame
    /\ src.screen.height > 1
    /\ enc.os.out_rate["system"] = 0
    /\ src.screen.cached_frame[0] = src.screen.height - 1
    /\ eng.frame_count > 0

\* ------------------------------------------------------------------------
\* The ceiling of a recording without a duration limit
\* ------------------------------------------------------------------------

\* C17: a recording with duration 0 that nobody cancels leaves its loop once
\* its elapsed time exceeds 60000 ms (no iteration is entered more than two
\* emergency-check intervals past it), and is then finalized and returns 0.
C17_UnlimitedRecordingEndsAtCeiling ==
    (eng.params.duration = 0 /\ ~Cancelled) =>
        /\ eng.pc = "body" =>
               eng.current_time - eng.start_time
                   <= UnlimitedRunMs + 2 * EmergencyCheckInterval
        /\ eng.pc # "trapped"
        /\ eng.pc = "returned" =>
               /\ eng.ret = 0 /\ eng.path = "teardown"
               /\ enc.os.finalize_calls = 1
               /\ eng.stats.recording_duration_ms > UnlimitedRunMs

\* ------------------------------------------------------------------------
\* Muxer instances and cleanup
\* ------------------------------------------------------------------------

\* C18: at most one sink writer exists in the process at any time.
C18_AtMostOneSinkWriter == enc.os.writers <= 1

\* the last call was encoder_cleanup, directly or through engine_cleanup
AfterEncoderCleanup == proc.last \in {"encoder", "engine"}

MuxerCounters == {"g_video_frame_count", "g_audio_sample_count",
                  "g_system_audio_sample_count", "g_mic_audio_sample_count"}
MuxerStreamIndexes == {"g_video_stream_index", "g_audio_stream_index",
                       "g_system_audio_stream_index",
                       "g_mic_audio_stream_index"}
MuxerModeFlags == {"g_dual_track_mode"}

\* the muxer globals and context are the same in a and b
SameMuxer(a, b) == a.g = b.g /\ a.ctx = b.ctx

C20_SecondCleanupIsNoOp ==
    proc.times = 2 =>
        /\ [src |-> src, enc |-> enc, eng |-> eng] = proc.first
        /\ proc.released = {}

\* engine_cleanup has been called twice in a row, the first call having
\* released the sink writer, the screen's objects and an audio source's
C20_Witness ==
    /\ proc.last = "engine"
    /\ proc.times = 2
    /\ {<<"encoder", "sink_writer">>, <<"screen", "duplication">>}
          \subseteq proc.released_first
    /\ \E k \in AudioSources : <<k, "audio_client">> \in proc.released_first

\* ------------------------------------------------------------------------
\* Media Foundation reference count
\* ------------------------------------------------------------------------

\* C21: MFShutdown is never called without a matching MFStartup, and once the
\* process has cleaned up every successful MFStartup has been matched by one
\* MFShutdown.
C21_StartupAndShutdownBalance ==
    /\ enc.os.mf_refs >= 0
    /\ eng.pc = "exited" => enc.os.mf_refs = 0

\* ------------------------------------------------------------------------
\* The sample-count clocks
\* ------------------------------------------------------------------------

\* what a sample stamped on stream k advances k's counter by
CountPassed(e, k) == IF k = "video" THEN 1 ELSE e.stamp[k].nf

\* C22: a step in which a buffer is made into a sample of stream k advances
\* k's counter by the count passed (1 for video, num_frames for audio) and no
\* other counter; and no step other than a muxer open or cleanup lowers a
\* counter.
C22_EachBufferAdvancesOneClock ==
    [][ /\ \A k \in Kinds :
              enc'.stamp[k].n = enc.stamp[k].n + 1 =>
                  /\ StreamCounter(enc', k)
                        = StreamCounter(enc, k) + CountPassed(enc', k)
                  /\ \A j \in Kinds \ {k} :
                        StreamCounter(enc', j) = StreamCounter(enc, j)
        /\ (enc'.opens = enc.opens
               /\ enc'.g.g_sink_writer = enc.g.g_sink_writer) =>
              \A k \in Kinds : StreamCounter(enc', k) >= StreamCounter(enc, k)
      ]_vars

\* ------------------------------------------------------------------------
\* Recording parameters
\* ------------------------------------------------------------------------

\* C23: after params_set_recording_mode or params_validate_and_finalize
\* returned success, in either build, at least one of the three switches is
\* set, audio_only_mode is (video off and some audio on) and audio_sources
\* names exactly the audio switches that are on; params_set_recording_mode
\* with the three switches off returns an error.
C23_FinalizedParamsAreConsistent ==
    LET p == eng.params
    IN /\ (proc.call # "none" /\ proc.ret = 0) =>
             /\ p.enable_video \/ p.enable_system_audio \/ p.enable_microphone
             /\ p.audio_only_mode
                   = (~p.enable_video
                        /\ (p.enable_system_audio \/ p.enable_microphone))
             /\ p.audio_sources
                   = IF p.enable_system_audio /\ p.enable_microphone
                     THEN "both"
                     ELSE IF p.enable_system_audio THEN "system"
                     ELSE IF p.enable_microphone THEN "mic" ELSE "none"
       /\ (proc.call = "set" /\ proc.asked = <<FALSE, FALSE, FALSE>>) =>
             proc.ret = -1

\* ------------------------------------------------------------------------
\* The capture loop
\* ------------------------------------------------------------------------

\* C24: the frame clock moves only when a frame was obtained: inside the loop
\* next_frame_time is start_time plus one frame interval per frame obtained,
\* so a slot whose get_frame returned NoNewFrame is retried, and a slot that
\* failed submitted nothing to the muxer.
C24_FrameClockWaitsForFrame ==
    (eng.pc \in {"check", "body", "teardown"} /\ ~eng.params.audio_only_mode) =>
        /\ eng.next_frame_time
              = eng.start_time + eng.frame_count * eng.frame_interval
        /\ enc.stamp["video"].n <= eng.frame_count

\* the audio test of a video + audio recording is over and the muxer is
\* about to be opened
AfterAudioTest ==
    /\ eng.pc = "encoder"
    /\ ~eng.params.audio_only_mode
    /\ eng.params.audio_sources # "none"

\* C25: after the audio test of a video + audio recording, audio is still
\* enabled only if the system endpoint was initialised (it passes even when
\* silent) or the microphone delivered a real packet; when it is not, the
\* recording is video-only; and every tested source is stopped.
C25_MicrophoneTestNeedsRealFrame ==
    AfterAudioTest =>
        /\ eng.audio_available =>
              \/ eng.use_system /\ eng.system_result = 0
              \/ proc.pkt["mic"] = "data"
        /\ eng.stats.audio_enabled = eng.audio_available
        /\ \A k \in AudioSources : ~src.audio[k].is_capturing

\* C26: audio is stamped only on a stream the open muxer was created with:
\* the system and microphone tracks of a dual-track muxer, the combined track
\* of a single-track one.
C26_AudioGoesToMatchingEntryPoint ==
    \A k \in AudioKinds : enc.stamp[k].n > 0 => enc.os.out_rate[k] > 0

\* ------------------------------------------------------------------------
\* The silence generator, call by call
\* ------------------------------------------------------------------------

\* C27: an idle *_get_buffer call, with expected = sample_rate * (now -
\* start_time) / 1000: when the generator is not behind it returns no frames
\* and leaves total_generated_samples alone; otherwise it returns
\* min(expected - total, 50 ms worth) frames marked as synthesized and adds
\* them to total_generated_samples; so the total never exceeds expected and
\* no buffer exceeds 50 ms worth.
C27_IdleCallReturnsBoundedSilence ==
    src.ledger.kind = "idle" =>
        LET k        == src.ledger.source
            c        == src.audio[k]
            sil      == src.silence[k]
            expected == ((c.rate \div 100)
                           * (src.ledger.at - sil.recording_start_time)) \div 10
            chunk    == (c.rate * 50) \div 1000
            before   == src.ledger.before
            got      == src.ledger.got
        IN /\ before >= expected =>
                 got = 0 /\ sil.total_generated_samples = before
           /\ before < expected =>
                 /\ got = Min(expected - before, chunk)
                 /\ sil.total_generated_samples = before + got
                 /\ c.using_silent_buffer
           /\ sil.total_generated_samples <= expected
           /\ got <= chunk

\* an idle call has returned less than 50 ms worth of silence: all the
\* generator was behind by
C27_Witness ==
    /\ src.ledger.kind = "idle"
    /\ src.ledger.got > 0
    /\ src.ledger.got
          < (src.audio[src.ledger.source].rate * 50) \div 1000
    /\ src.audio[src.ledger.source].using_silent_buffer


SameFrame(a, b) == a.size = b.size /\ (a.size > 0 => a.rows = b.rows)

\* the frame the cache holds
CachedFrame ==
    [size |-> src.screen.cached_frame_size, rows |-> src.screen.cached_frame]

FrameIsCached == src.screen.has_cached_frame /\ src.screen.cached_alloc > 0

SubmissionStep == enc'.calls = enc.calls + 1 /\ enc'.opens = enc.opens

\* C30: encoder_finalize attempts IMFSinkWriter_Finalize whenever a sink
\* writer is open, and with no data in any stream it sends no end-of-stream
\* tick; it returns 0 when Finalize succeeds or fails with the empty-file
\* code and -1 on every other failure; once it has returned 0 every
\* submission to the muxer is refused.
C30_FinalizeClosesTheMuxer ==
    [][ /\ (MuxFinalize /\ enc.g.g_sink_writer) =>
              /\ enc'.os.finalize_calls = enc.os.finalize_calls + 1
              /\ (\A k \in Kinds : enc.stamp[k].n = 0) =>
                     enc'.tick = enc.tick
              /\ enc'.ret =
                     IF enc'.os.finalize_result \in {"ok", "empty_media"}
                     THEN 0 ELSE -1
        /\ (SubmissionStep
               /\ enc.os.finalize_result \in {"ok", "empty_media"}) =>
              /\ enc'.ret = -1
              /\ enc'.stamp = enc.stamp
              /\ enc'.written = enc.written
      ]_vars



\* engine_start has returned an error through its cleanup label
ErrorReturnAfterInit ==
    eng.pc = "returned" /\ eng.ret = -1 /\ eng.path = "cleanup"

\* C31: when engine_start returns an error after a component was
\* initialized or started (audio-only with no working audio, muxer init
\* failure, screen start failure), every component whose init succeeded in
\* this call has been stopped and cleaned up, the muxer has been cleaned up,
\* and is_running is false.
C31_ErrorReturnReleasesEverything ==
    ErrorReturnAfterInit =>
        /\ ~eng.is_running
        /\ ~eng.params.audio_only_mode =>
              src.screen = ScreenCtx /\ "screen" \in src.cleaned
        /\ eng.microphone_result = 0 =>
              src.audio["mic"] = AudioCtx /\ "mic" \in src.cleaned
        /\ eng.system_result = 0 =>
              src.audio["system"] = AudioCtx /\ "system" \in src.cleaned
        /\ "encoder" \in src.cleaned
        /\ ~enc.g.g_sink_writer
        /\ enc.ctx = EncoderContext

\* an error return of a recording whose screen and both endpoints had been
\* initialized
C31_Witness ==
    /\ ErrorReturnAfterInit
    /\ ~eng.params.audio_only_mode
    /\ eng.microphone_result = 0
    /\ eng.system_result = 0
    /\ src.cleaned = {"screen", "mic", "system", "encoder"}



\* the failure threshold of the claim
AudioFailureThreshold == 1000

\* C32: in audio-only mode the loop breaks at the end of the 1000th
\* consecutive iteration in which no source yielded a buffer, and the
\* recording is then reported as an error; an iteration that hands a buffer
\* to the muxer resets the count to zero; outside audio-only mode the count
\* never stops the loop.
C32_AudioOnlyFailureThreshold ==
    [][ /\ eng.pc = "body" =>
              /\ eng'.pc = "teardown" <=>
                     /\ eng.params.audio_only_mode
                     /\ eng'.consecutive_audio_failures
                            = AudioFailureThreshold
              /\ (\E k \in AudioKinds : enc'.stamp[k].n > enc.stamp[k].n) =>
                     eng'.consecutive_audio_failures = 0
        /\ (/\ eng.pc = "teardown" /\ eng'.pc = "returned"
            /\ eng.params.audio_only_mode
            /\ eng.consecutive_audio_failures >= AudioFailureThreshold) =>
              eng'.ret = -1
      ]_vars



\* the audio-only failure threshold has just been passed
AudioThresholdPassed ==
    /\ eng.pc = "body"
    /\ eng.params.audio_only_mode
    /\ eng'.consecutive_audio_failures > 1000

\* C33: the capture loop is left only because the duration is reached, a
\* stop was requested, the loop-frequency guard or the unlimited-duration
\* ceiling fired, or the audio-only failure threshold was passed; an
\* iteration in which the frame acquisition or a muxer submission failed
\* ends like any other and the loop goes on to its next test.
C33_OnlyListedCausesEndTheLoop ==
    [][ /\ (eng.pc \in {"check", "body"} /\ eng'.pc = "teardown") =>
              \/ eng.pc = "check" /\ ~LoopCondition(eng)
              \/ /\ eng.pc = "check"
                 /\ eng'.params.duration > 0
                 /\ eng'.current_time - eng'.start_time
                        >= eng'.params.duration * 1000
              \/ /\ eng.pc = "check"
                 /\ eng'.params.duration = 0
                 /\ eng'.current_time - eng'.start_time > UnlimitedRunMs
              \/ /\ eng.pc = "check"
                 /\ eng'.loop_iterations > MaxLoopIterationsPerSecond
              \/ AudioThresholdPassed
        /\ (eng.pc = "body" /\ eng'.pc \notin {"body", "wedged"}) =>
              \/ eng'.pc = "check"
              \/ AudioThresholdPassed
      ]_vars

\* the loop tests its condition again after an iteration in which the
\* muxer's write of a video sample failed
C33_Witness ==
    /\ eng.pc = "check"
    /\ eng.iters > 0
    /\ enc.ret = -1
    /\ enc.stamp["video"].n > enc.written["video"]
    /\ LoopCondition(eng)



\* an iteration ends with its Sleep, which nothing prolongs
IterationSleeps == eng.pc = "body" /\ eng'.pc = "check"

\* the time asked of that Sleep
RequestedSleep == eng'.wake - now

\* next_frame_time - current_time when the Sleep is asked for
UntilNextFrame == eng'.next_frame_time - eng'.current_time

\* C34 as stated: at the bottom of each iteration the Sleep asked for is
\* 5 ms if audio is active and min(5, max(1, next_frame_time - now)) ms
\* otherwise, and it is always between 1 and 5 ms.
C34_SleepIsClampedDistance ==
    [][ IterationSleeps =>
          /\ RequestedSleep =
                IF eng'.audio_available THEN 5
                ELSE IF UntilNextFrame > 5 THEN 5
                ELSE IF UntilNextFrame > 1 THEN UntilNextFrame
                ELSE 1
          /\ RequestedSleep \in 1..5
      ]_vars

\* C34: at the bottom of each iteration the Sleep asked for is 5 ms if
\* audio is active; otherwise, with d = next_frame_time - current_time, it
\* is 5 ms when d > 5, d - 1 ms when 1 < d <= 5, and 3 ms when d <= 1; it is
\* always between 1 and 5 ms.
C34_SleepStopsShortOfNextFrame ==
    [][ IterationSleeps =>
          /\ RequestedSleep =
                IF eng'.audio_available THEN 5
                ELSE IF UntilNextFrame > 5 THEN 5
                ELSE IF UntilNextFrame > 1 THEN UntilNextFrame - 1
                ELSE 3
          /\ RequestedSleep \in 1..5
      ]_vars

\* a video-only recording asleep for 3 ms although its next frame is due
\* within 1 ms
C34_Witness ==
    /\ eng.pc = "check"
    /\ eng.iters > 0
    /\ ~eng.audio_available
    /\ eng.next_frame_time - eng.current_time <= 1
    /\ eng.wake - eng.current_time = 3



\* the open muxer has no audio stream
NoAudioTrack ==
    /\ enc.g.g_sink_writer
    /\ enc.ctx.is_recording
    /\ \A k \in AudioKinds : enc.os.out_rate[k] = 0

\* the open muxer was not opened by a dual-track init
NotDualTrack ==
    /\ enc.g.g_sink_writer
    /\ enc.ctx.is_recording
    /\ ~enc.ctx.dual_track_mode

\* a call that submits nothing and advances no clock
NothingSubmitted ==
    /\ enc'.stamp = enc.stamp
    /\ enc'.written = enc.written
    /\ \A k \in Kinds : StreamCounter(enc', k) = StreamCounter(enc, k)

\* C35: encoder_add_audio_frame on a muxer with no audio track returns 0
\* without submitting anything or advancing any clock;
\* encoder_add_system_audio_frame and encoder_add_mic_audio_frame on a muxer
\* that is not in dual-track mode, and every add call made while no sink
\* writer is open (before a successful init, after cleanup), return -1
\* without submitting anything or advancing any clock.
C35_MisdirectedSubmissionsAreInert ==
    [][ /\ (MuxAddAudio /\ NoAudioTrack) =>
              enc'.ret = 0 /\ NothingSubmitted
        /\ ((MuxAddSystemAudio \/ MuxAddMicAudio) /\ NotDualTrack) =>
              enc'.ret = -1 /\ NothingSubmitted
        /\ ((MuxAddVideo \/ MuxAddAudio \/ MuxAddSystemAudio
               \/ MuxAddMicAudio) /\ ~enc.g.g_sink_writer) =>
              enc'.ret = -1 /\ NothingSubmitted
      ]_vars



\* engine_start is between its entry and the end of its capture loop
BeforeLoopEnd == eng.pc \in {"init", "encoder", "check", "body"}

\* a step in which console_ctrl_handler records a shutdown request
StopRequestStep == ~proc.shutdown_requested /\ proc'.shutdown_requested

\* a step in which emergency_timeout_thread wakes from its five minutes
WatchdogWakeStep ==
    proc.watchdog.pc = "sleeping" /\ proc'.watchdog.pc # "sleeping"

\* a request made before the loop ends leaves the loop's flag set
StopRequestReachesLoop ==
    (StopRequestStep /\ BeforeLoopEnd) => eng'.force_stop

\* the watchdog acts on an engine that runs with no cancellation flag set
WatchdogStillArmed ==
    (WatchdogWakeStep /\ LoopCondition(eng)) => proc'.watchdog.fired

\* C36: a stop request issued at any time after engine_start has been
\* entered, the initialization and audio-probe phase included, is never
\* lost: it leaves the capture loop's cancellation flag set, and a request
\* made before the loop starts does not keep the emergency watchdog from
\* acting on the running engine.
C36_StopRequestIsNeverLost ==
    [][StopRequestReachesLoop /\ WatchdogStillArmed]_vars

\* a step in which the process's engine_cleanup runs
EngineCleanupStep == eng.pc # "exited" /\ eng'.pc = "exited"

\* C37: whenever is_running is FALSE after a recording's loop was entered,
\* the recording thread has left the capture loop and encoder_finalize has
\* returned; and engine_cleanup never runs while the recording thread is
\* still in the loop or in its teardown.
C37_NotRunningMeansThreadDone ==
    /\ [](ThreadInRecording => eng.is_running)
    /\ [][EngineCleanupStep => ~ThreadInRecording]_vars

\* one iteration of the capture loop with a muxer that has a single combined
\* audio track
SingleTrackIteration ==
    /\ eng.pc = "body"
    /\ eng'.pc # "body"
    /\ eng.audio_available
    /\ ~enc.ctx.dual_track_mode

\* the buffers submitted to the combined track in the step
CombinedSubmissions == enc'.stamp["audio"].n - enc.stamp["audio"].n

\* C38: in a recording whose muxer has a single combined audio track,
\* buffers of at most one audio source are submitted to that track: an
\* iteration of the loop submits at most one buffer to it, whatever sources
\* were requested, audio-only with system audio and microphone included.
C38_CombinedTrackHasOneSource ==
    [][SingleTrackIteration => CombinedSubmissions <= 1]_vars

\* the tick counter, read as cur, has reached the time slot: it is at or
\* past it by less than half the counter's range
Reached(cur, slot) == DwordSub(cur, slot) < TickModulus \div 2

\* the loop's condition held and the top of an iteration ran
CheckStep == eng.pc = "check" /\ eng'.pc # "check" /\ LoopCondition(eng)

\* that iteration ran the emergency check
EmergencyChecked ==
    \/ eng'.loop_iterations = 0
    \/ eng'.pc = "teardown"
          /\ eng'.loop_iterations > MaxLoopIterationsPerSecond

\* the rest of an iteration of a recording with video
VideoBodyStep ==
    eng.pc = "body" /\ eng'.pc # "body" /\ ~eng.params.audio_only_mode

FrameAttempts(e) == e.frame_count + e.failed_frame_attempts

\* C39: video pacing, the duration check and the 1-second emergency-check
\* schedule behave the same whether or not the tick counter wraps during the
\* recording: an iteration runs the emergency check exactly when the
\* counter has reached next_emergency_check, leaves the loop once
\* duration * 1000 ms have elapsed, and attempts a frame exactly when the
\* counter has reached the frame's slot next_frame_time.
C39_TickWrapIsHarmless ==
    [][ /\ CheckStep =>
              /\ EmergencyChecked
                    <=> Reached(eng'.current_time, eng.next_emergency_check)
              /\ (eng.params.duration > 0
                    /\ DwordSub(eng'.current_time, eng.start_time)
                          >= eng.params.duration * 1000)
                      => eng'.pc = "teardown"
        /\ VideoBodyStep =>
              (FrameAttempts(eng') = FrameAttempts(eng) + 1
                  <=> Reached(eng.current_time, eng.next_frame_time))
      ]_vars

\* C40: within each stream consecutive written samples are contiguous to
\* within one 100-ns tick: a written sample starts 0 or 1 tick after the end
\* (timestamp + duration) of the written sample before it, for every frame
\* rate in 1..120 and every sequence of audio buffer sizes.
C40_WrittenSamplesAreContiguous ==
    \A k \in Kinds : proc.gap[k] \in {0, 1}
====
